---- MODULE Spec2Model ----
(***************************************************************************)
(* minilb: a DNS server that answers A queries with the ready pod          *)
(* addresses of a Kubernetes service, plus a service controller that       *)
(* writes the service's load-balancer hostname and records alias           *)
(* hostnames.                                                              *)
(*                                                                         *)
(* A string is a sequence of one-character strings, so that the string     *)
(* operations of the code (TrimSuffix, HasSuffix, SplitN, ToLower,         *)
(* TrimSpace) are computed and not assumed.                                *)
(***************************************************************************)
EXTENDS Integers, Sequences, FiniteSets, TLC

VARIABLES
    api,         \* the Service objects held by the cluster API server
    store,       \* the informer's cached Service objects, handed to the handlers
    serviceMap,  \* k8s.serviceMap: canonical alias hostname -> service FQDN
    listers,     \* snapshot behind the ingress, route and gateway listers
    slices,      \* the EndpointSlice objects held by the cluster API server
    mutex,       \* k8s.mutex: the sync.RWMutex that guards serviceMap
    goroutines,  \* where each goroutine stands when handlers are interleaved
    last         \* record of the operation performed last (observation only)

vars == << api, store, serviceMap, listers, slices, mutex, goroutines, last >>

\* ------------------------------------------------------------------------
\* Go's strings package, as far as the code uses it
\* ------------------------------------------------------------------------

\* strings.HasSuffix(s, suffix)
HasSuffix(s, suffix) ==
    /\ Len(s) >= Len(suffix)
    /\ SubSeq(s, Len(s) - Len(suffix) + 1, Len(s)) = suffix

\* strings.HasPrefix(s, prefix)
HasPrefix(s, prefix) ==
    /\ Len(s) >= Len(prefix)
    /\ SubSeq(s, 1, Len(prefix)) = prefix

\* strings.TrimSuffix(s, suffix): removes one occurrence, if present
TrimSuffix(s, suffix) ==
    IF HasSuffix(s, suffix) THEN SubSeq(s, 1, Len(s) - Len(suffix)) ELSE s

\* strings.TrimPrefix(s, prefix)
TrimPrefix(s, prefix) ==
    IF HasPrefix(s, prefix) THEN SubSeq(s, Len(prefix) + 1, Len(s)) ELSE s

UpperChars ==
    << "A", "B", "C", "D", "E", "F", "G", "H", "I", "J", "K", "L", "M",
       "N", "O", "P", "Q", "R", "S", "T", "U", "V", "W", "X", "Y", "Z" >>

LowerChars ==
    << "a", "b", "c", "d", "e", "f", "g", "h", "i", "j", "k", "l", "m",
       "n", "o", "p", "q", "r", "s", "t", "u", "v", "w", "x", "y", "z" >>

\* the lower-case letter of each upper-case letter
LowerOf ==
    [c \in {UpperChars[i] : i \in DOMAIN UpperChars} |->
        LowerChars[CHOOSE i \in DOMAIN UpperChars : UpperChars[i] = c]]

ToLowerChar(c) == IF c \in DOMAIN LowerOf THEN LowerOf[c] ELSE c

\* strings.ToLower(s)
ToLower(s) ==
    IF \A i \in DOMAIN s : s[i] \notin DOMAIN LowerOf THEN s
    ELSE [i \in DOMAIN s |-> ToLowerChar(s[i])]

SpaceChars == {" ", "\t", "\n", "\r"}

\* strings.TrimSpace(s): strips leading and trailing white space
TrimSpace(s) ==
    IF \A i \in DOMAIN s : s[i] \in SpaceChars THEN << >>
    ELSE IF s[1] \notin SpaceChars /\ s[Len(s)] \notin SpaceChars THEN s
    ELSE SubSeq(s,
                CHOOSE i \in DOMAIN s :
                    /\ s[i] \notin SpaceChars
                    /\ \A j \in 1 .. (i - 1) : s[j] \in SpaceChars,
                CHOOSE i \in DOMAIN s :
                    /\ s[i] \notin SpaceChars
                    /\ \A j \in (i + 1) .. Len(s) : s[j] \in SpaceChars)

\* strings.SplitN(s, ".", 2): at most two parts, cut at the first dot
SplitN2(s) ==
    IF \A i \in DOMAIN s : s[i] # "." THEN << s >>
    ELSE LET d == CHOOSE i \in DOMAIN s :
                      /\ s[i] = "."
                      /\ \A j \in 1 .. (i - 1) : s[j] # "."
         IN  << SubSeq(s, 1, d - 1), SubSeq(s, d + 1, Len(s)) >>

\* ------------------------------------------------------------------------
\* Configuration (internal/config): the flag defaults
\* ------------------------------------------------------------------------

\* config.Domain, "minilb"
Domain == << "m", "i", "n", "i", "l", "b" >>

\* config.TTL, seconds
TTL == 5

\* config.Controller, "Run the service controller in addition to the DNS
\* server"; main calls k8s.Run and dns.Run without reading it
Controller == FALSE

\* uint32(x), as in Ttl: uint32(*config.TTL): x modulo 2^32, computed on the
\* two 16-bit halves
Uint32(x) == (((x \div 65536) % 65536) * 65536) + (x % 65536)

\* k8s.LBClass
LBClass == "minilb"

\* a nil pointer (*string, *bool) in an object field
NilPtr == "<nil>"

NoErr == ""

\* ------------------------------------------------------------------------
\* package k8s: hostname matching
\* ------------------------------------------------------------------------

canonicalHostname(host) == ToLower(TrimSuffix(TrimSpace(host), << "." >>))

\* hostnameMatches without the length test of the wildcard branch
hostnameMatches_NoLength(candidate, query) ==
    \E c \in {canonicalHostname(candidate)}, q \in {canonicalHostname(query)} :
        IF c = << >> \/ q = << >> THEN FALSE
        ELSE IF c = q THEN TRUE
        ELSE IF HasPrefix(c, << "*", "." >>)
             THEN \E suffix \in {TrimPrefix(c, << "*", "." >>)} :
                      /\ suffix # << >>
                      /\ HasSuffix(q, suffix)
             ELSE FALSE

hostnameMatches(candidate, query) ==
    \E c \in {canonicalHostname(candidate)}, q \in {canonicalHostname(query)} :
        IF c = << >> \/ q = << >> THEN FALSE
        ELSE IF c = q THEN TRUE
        ELSE IF HasPrefix(c, << "*", "." >>)
             THEN \E suffix \in {TrimPrefix(c, << "*", "." >>)} :
                      /\ suffix # << >>
                      /\ Len(q) > Len(suffix)
                      /\ HasSuffix(q, suffix)
             ELSE FALSE

\* drops the empty hostnames of a route
hostnamesToStrings(hosts) == SelectSeq(hosts, LAMBDA h : h # << >>)

containsMatchingHostname(hosts, query) ==
    \E i \in DOMAIN hosts : hostnameMatches(hosts[i], query)

\* where a loop with an early return stops: the least of the indexes at
\* which its test succeeds, 0 if there is none
FirstIndex(hits) ==
    LET Least(h) == IF h = {} THEN 0
                    ELSE CHOOSE i \in h : \A j \in h : i <= j
    IN  CHOOSE first \in { Least(h) : h \in {hits} } : TRUE

\* ------------------------------------------------------------------------
\* package k8s: the route lookup chain
\* ------------------------------------------------------------------------

\* the result pair (string, error) of a lookup
Res(addr, err) == [addr |-> addr, err |-> err]

\* a scan that takes the first ingress with a status, whatever its rules
IngressAnswers_AnyRule(ingress, hostname) ==
    /\ Len(ingress.status) > 0
    /\ \/ ingress.status[1].hostname # << >>
       \/ ingress.status[1].ip # << >>

\* an ingress the scan of resolveIngressHostname returns from: one of its
\* rules matches, it has a status entry, and the first entry is not empty
IngressAnswers(ingress, hostname) ==
    /\ \E r \in DOMAIN ingress.rules : hostnameMatches(ingress.rules[r], hostname)
    /\ Len(ingress.status) > 0
    /\ \/ ingress.status[1].hostname # << >>
       \/ ingress.status[1].ip # << >>

\* an ingress stage that prefers the IP of the status entry
resolveIngressHostname_IPFirst(hostname) ==
    IF listers.ingressNil THEN Res(<< >>, NoErr)
    ELSE IF listers.ingressErr # NoErr THEN Res(<< >>, listers.ingressErr)
    ELSE LET i == FirstIndex({k \in DOMAIN listers.ingresses :
                                 IngressAnswers(listers.ingresses[k], hostname)})
         IN  IF i = 0 THEN Res(<< >>, NoErr)
             ELSE LET lb == listers.ingresses[i].status[1]
                  IN  IF lb.ip # << >> THEN Res(lb.ip, NoErr)
                      ELSE Res(lb.hostname, NoErr)

resolveIngressHostname(hostname) ==
    IF listers.ingressNil THEN Res(<< >>, NoErr)
    ELSE IF listers.ingressErr # NoErr THEN Res(<< >>, listers.ingressErr)
    ELSE LET i == FirstIndex({k \in DOMAIN listers.ingresses :
                                 IngressAnswers(listers.ingresses[k], hostname)})
         IN  IF i = 0 THEN Res(<< >>, NoErr)
             ELSE LET lb == listers.ingresses[i].status[1]
                  IN  IF lb.hostname # << >> THEN Res(lb.hostname, NoErr)
                      ELSE Res(lb.ip, NoErr)

\* gatewayLister.Gateways(ns).Get(name) finds the gateway
GatewayFound(ns, name) ==
    \E g \in listers.gateways : g.ns = ns /\ g.name = name

GetGateway(ns, name) ==
    CHOOSE g \in listers.gateways : g.ns = ns /\ g.name = name

\* a lookup that ignores the namespace of the parent reference
ParentNamespace_RouteOnly(routeNamespace, parentRef) == routeNamespace

\* the namespace a parent reference is looked up in
ParentNamespace(routeNamespace, parentRef) ==
    IF parentRef.ns # NilPtr /\ parentRef.ns # "" THEN parentRef.ns
    ELSE routeNamespace

\* a parent reference the loop of gatewayAddressForParentRefs returns from
ParentAnswers(routeNamespace, parentRef) ==
    /\ ~(parentRef.kind # NilPtr /\ parentRef.kind # "Gateway")
    /\ GatewayFound(ParentNamespace(routeNamespace, parentRef), parentRef.name)
    /\ LET gw == GetGateway(ParentNamespace(routeNamespace, parentRef),
                            parentRef.name)
       IN  \E a \in DOMAIN gw.addresses : gw.addresses[a] # << >>

gatewayAddressForParentRefs(routeNamespace, parentRefs) ==
    IF listers.gatewayNil THEN << >>
    ELSE LET p == FirstIndex({k \in DOMAIN parentRefs :
                                 ParentAnswers(routeNamespace, parentRefs[k])})
         IN  IF p = 0 THEN << >>
             ELSE LET gw == GetGateway(
                                ParentNamespace(routeNamespace, parentRefs[p]),
                                parentRefs[p].name)
                      a  == FirstIndex({k \in DOMAIN gw.addresses :
                                          gw.addresses[k] # << >>})
                  IN  gw.addresses[a]

\* a scan in which a route without hostnames matches every query
ScanRoutes_CatchAll(routes, hostname, skipNoHostnames) ==
    LET Answers(route) ==
            /\ \/ Len(route.hostnames) = 0
               \/ containsMatchingHostname(hostnamesToStrings(route.hostnames),
                                           hostname)
            /\ gatewayAddressForParentRefs(route.ns, route.parentRefs) # << >>
        r == FirstIndex({k \in DOMAIN routes : Answers(routes[k])})
    IN  IF r = 0 THEN Res(<< >>, NoErr)
        ELSE Res(gatewayAddressForParentRefs(routes[r].ns,
                                             routes[r].parentRefs), NoErr)

\* the scan the three route stages share: the first route with a matching
\* hostname whose parents yield an address
ScanRoutes(routes, hostname, skipNoHostnames) ==
    LET Answers(route) ==
            /\ ~(skipNoHostnames /\ Len(route.hostnames) = 0)
            /\ containsMatchingHostname(hostnamesToStrings(route.hostnames),
                                        hostname)
            /\ gatewayAddressForParentRefs(route.ns, route.parentRefs) # << >>
        r == FirstIndex({k \in DOMAIN routes : Answers(routes[k])})
    IN  IF r = 0 THEN Res(<< >>, NoErr)
        ELSE Res(gatewayAddressForParentRefs(routes[r].ns,
                                             routes[r].parentRefs), NoErr)

\* an HTTP stage that reports a missing lister as an error
resolveHTTPRouteHostname_NilFails(hostname) ==
    IF listers.httpNil THEN Res(<< >>, "http route lister is nil")
    ELSE IF listers.httpErr # NoErr THEN Res(<< >>, listers.httpErr)
    ELSE ScanRoutes(listers.httpRoutes, hostname, FALSE)

resolveHTTPRouteHostname(hostname) ==
    IF listers.httpNil THEN Res(<< >>, NoErr)
    ELSE IF listers.httpErr # NoErr THEN Res(<< >>, listers.httpErr)
    ELSE ScanRoutes(listers.httpRoutes, hostname, FALSE)

resolveTLSRouteHostname(hostname) ==
    IF listers.tlsNil THEN Res(<< >>, NoErr)
    ELSE IF listers.tlsErr # NoErr THEN Res(<< >>, listers.tlsErr)
    ELSE ScanRoutes(listers.tlsRoutes, hostname, FALSE)

resolveGRPCRouteHostname(hostname) ==
    IF listers.grpcNil THEN Res(<< >>, NoErr)
    ELSE IF listers.grpcErr # NoErr THEN Res(<< >>, listers.grpcErr)
    ELSE ScanRoutes(listers.grpcRoutes, hostname, TRUE)

ErrInvalidHostname == "invalid hostname"

ErrHostnameNotFound == "hostname not found"

\* a lookup that asks the ingress stage before the cache
GetAddressForHostname_IngressFirst(hostname) ==
    LET canonical == canonicalHostname(hostname)
        ingress   == resolveIngressHostname(canonical)
        http      == resolveHTTPRouteHostname(canonical)
        tls       == resolveTLSRouteHostname(canonical)
        grpc      == resolveGRPCRouteHostname(canonical)
    IN  IF canonical = << >> THEN Res(<< >>, ErrInvalidHostname)
        ELSE IF ingress.addr # << >> THEN Res(ingress.addr, NoErr)
        ELSE IF canonical \in DOMAIN serviceMap
             THEN Res(serviceMap[canonical], NoErr)
        ELSE IF http.addr # << >> THEN Res(http.addr, NoErr)
        ELSE IF tls.addr # << >> THEN Res(tls.addr, NoErr)
        ELSE IF grpc.addr # << >> THEN Res(grpc.addr, NoErr)
        ELSE Res(<< >>, ErrHostnameNotFound)

\* a lookup that goes on to the next stage when a listing fails
GetAddressForHostname_SkipFailed(hostname) ==
    LET canonical == canonicalHostname(hostname)
        ingress   == resolveIngressHostname(canonical)
        http      == resolveHTTPRouteHostname(canonical)
        tls       == resolveTLSRouteHostname(canonical)
        grpc      == resolveGRPCRouteHostname(canonical)
    IN  IF canonical = << >> THEN Res(<< >>, ErrInvalidHostname)
        ELSE IF canonical \in DOMAIN serviceMap
             THEN Res(serviceMap[canonical], NoErr)
        ELSE IF ingress.addr # << >> THEN Res(ingress.addr, NoErr)
        ELSE IF http.addr # << >> THEN Res(http.addr, NoErr)
        ELSE IF tls.addr # << >> THEN Res(tls.addr, NoErr)
        ELSE IF grpc.addr # << >> THEN Res(grpc.addr, NoErr)
        ELSE Res(<< >>, ErrHostnameNotFound)

GetAddressForHostname(hostname) ==
    LET canonical == canonicalHostname(hostname)
        ingress   == resolveIngressHostname(canonical)
        http      == resolveHTTPRouteHostname(canonical)
        tls       == resolveTLSRouteHostname(canonical)
        grpc      == resolveGRPCRouteHostname(canonical)
    IN  IF canonical = << >> THEN Res(<< >>, ErrInvalidHostname)
        ELSE IF canonical \in DOMAIN serviceMap
             THEN Res(serviceMap[canonical], NoErr)
        ELSE IF ingress.err # NoErr THEN Res(<< >>, ingress.err)
        ELSE IF ingress.addr # << >> THEN Res(ingress.addr, NoErr)
        ELSE IF http.err # NoErr THEN Res(<< >>, http.err)
        ELSE IF http.addr # << >> THEN Res(http.addr, NoErr)
        ELSE IF tls.err # NoErr THEN Res(<< >>, tls.err)
        ELSE IF tls.addr # << >> THEN Res(tls.addr, NoErr)
        ELSE IF grpc.err # NoErr THEN Res(<< >>, grpc.err)
        ELSE IF grpc.addr # << >> THEN Res(grpc.addr, NoErr)
        ELSE Res(<< >>, ErrHostnameNotFound)

\* ------------------------------------------------------------------------
\* package k8s: the endpoint aggregator
\* ------------------------------------------------------------------------

\* isReadyEndpoint without the test of the terminating condition
isReadyEndpoint_IgnoreTerminating(endpoint) ==
    IF Len(endpoint.addresses) = 0 THEN FALSE
    ELSE IF endpoint.ready # NilPtr /\ endpoint.ready # "true" THEN FALSE
    ELSE IF endpoint.serving # NilPtr /\ endpoint.serving # "true" THEN FALSE
    ELSE TRUE

isReadyEndpoint(endpoint) ==
    IF Len(endpoint.addresses) = 0 THEN FALSE
    ELSE IF endpoint.ready # NilPtr /\ endpoint.ready # "true" THEN FALSE
    ELSE IF endpoint.serving # NilPtr /\ endpoint.serving # "true" THEN FALSE
    ELSE IF endpoint.terminating # NilPtr /\ endpoint.terminating = "true"
         THEN FALSE
    ELSE TRUE

\* the concatenation of a sequence of sequences
RECURSIVE Flatten(_)
Flatten(seqs) ==
    IF seqs = << >> THEN << >> ELSE Head(seqs) \o Flatten(Tail(seqs))

\* the subset.Addresses built from one slice: the addresses of its ready
\* endpoints, in order
SubsetAddresses(slice) ==
    Flatten([e \in DOMAIN slice.endpoints |->
                IF isReadyEndpoint(slice.endpoints[e])
                THEN slice.endpoints[e].addresses
                ELSE << >>])

\* EndpointSlices(namespace).List with the label selector
\* kubernetes.io/service-name=serviceName
ListEndpointSlices(serviceName, namespace) ==
    SelectSeq(slices, LAMBDA sl : sl.ns = namespace /\ sl.svc = serviceName)

ErrList == "endpointslices list failed"

ErrNoReady == "no ready IPv4 endpoints found"

\* GetEndpoints that keeps the subsets without addresses
GetEndpoints_KeepEmpty(serviceName, namespace, listOk) ==
    IF ~listOk THEN [subsets |-> << >>, err |-> ErrList]
    ELSE LET items   == ListEndpointSlices(serviceName, namespace)
             ipv4    == SelectSeq(items, LAMBDA sl : sl.addressType = "IPv4")
             subsets == [i \in DOMAIN ipv4 |->
                            [addresses |-> SubsetAddresses(ipv4[i])]]
         IN  IF Len(subsets) = 0
             THEN [subsets |-> << >>, err |-> ErrNoReady]
             ELSE [subsets |-> subsets, err |-> NoErr]

\* listOk: whether the List request to the API server succeeds
GetEndpoints(serviceName, namespace, listOk) ==
    IF ~listOk THEN [subsets |-> << >>, err |-> ErrList]
    ELSE LET items   == ListEndpointSlices(serviceName, namespace)
             ipv4    == SelectSeq(items, LAMBDA sl : sl.addressType = "IPv4")
             kept    == SelectSeq(ipv4,
                                  LAMBDA sl : Len(SubsetAddresses(sl)) > 0)
             subsets == [i \in DOMAIN kept |->
                            [addresses |-> SubsetAddresses(kept[i])]]
         IN  IF Len(subsets) = 0
             THEN [subsets |-> << >>, err |-> ErrNoReady]
             ELSE [subsets |-> subsets, err |-> NoErr]

\* ------------------------------------------------------------------------
\* package dns: the query handler
\* ------------------------------------------------------------------------

\* net.ParseIP on the address strings of the model; nil for anything else
IPv4Table ==
    { << "10.244.19.168", << 10, 244, 19, 168 >> >>,
      << "10.244.1.103",  << 10, 244, 1, 103 >> >>,
      << "10.244.2.7",    << 10, 244, 2, 7 >> >> }

ParseIP(str) ==
    IF \E e \in IPv4Table : e[1] = str
    THEN (CHOOSE e \in IPv4Table : e[1] = str)[2]
    ELSE << >>

\* exchanges positions i and j of a sequence
\* an assignment answers[i] = answers[j] in place of the exchange
Swap_Overwrite(seq, i, j) ==
    [k \in DOMAIN seq |-> IF k = i THEN seq[j] ELSE seq[k]]

Swap(seq, i, j) ==
    [k \in DOMAIN seq |-> IF k = i THEN seq[j] ELSE IF k = j THEN seq[i] ELSE seq[k]]

\* the loop of shuffleDNSAnswers from position i on; js[i] is rand.Intn(i + 1)
\* for the position the code numbers i - 1, so js[i] \in 0 .. i - 1
RECURSIVE ShuffleFrom(_, _, _)
ShuffleFrom(answers, js, i) ==
    IF i > Len(answers) THEN answers
    ELSE ShuffleFrom(Swap(answers, i, js[i] + 1), js, i + 1)

shuffleDNSAnswers(answers, js) == ShuffleFrom(answers, js, 1)

\* draws that never leave a record after the first in its place
RandomDraws_NeverSelf(n) ==
    {js \in [1 .. n -> 0 .. n - 1] : \A i \in 1 .. n : js[i] <= i - 1 /\ (i > 1 => js[i] < i - 1)}

\* the sequences of random numbers a shuffle of n answers can draw
RandomDraws(n) ==
    {js \in [1 .. n -> 0 .. n - 1] : \A i \in 1 .. n : js[i] <= i - 1}

\* m := new(dns.Msg); m.SetReply(r); m.Authoritative = true
NewReply(r) ==
    [question |-> r.question, response |-> TRUE, rcode |-> "NOERROR",
     authoritative |-> TRUE, answer |-> << >>]

\* a handler that answers from the first subset only
AnswerRecords_FirstSubset(qname, subsets) ==
    LET addrs == subsets[1].addresses
    IN  [i \in DOMAIN addrs |->
            [name |-> qname, rrtype |-> "A", class |-> "INET",
             ttl |-> Uint32(TTL), a |-> ParseIP(addrs[i])]]

\* the A records appended for the subsets, in order
AnswerRecords(qname, subsets) ==
    LET addrs == Flatten([i \in DOMAIN subsets |-> subsets[i].addresses])
    IN  [i \in DOMAIN addrs |->
            [name |-> qname, rrtype |-> "A", class |-> "INET",
             ttl |-> Uint32(TTL), a |-> ParseIP(addrs[i])]]

\* What one run of the handler did: the messages it wrote with WriteMsg, the
\* steps it took in order, whether it panicked, what GetAddressForHostname
\* returned and what GetEndpoints was asked and returned.
QueryLog(r, panicked, steps, replies, alias, target) ==
    [kind |-> "query", msg |-> r, panicked |-> panicked, steps |-> steps,
     replies |-> replies, alias |-> alias, target |-> target]

NotCalled == "not called"

NoAlias == Res(<< >>, NotCalled)

NoTarget == [serviceName |-> << >>, namespace |-> << >>, err |-> NotCalled]

\* a handler that takes every question for an address question
IsTypeA_Any(question) == question.qtype \in {"A", "AAAA", "TXT"}

\* r.Question[0].Qtype == dns.TypeA
IsTypeA(question) == question.qtype = "A"

\* a suffix test that ignores letter case
IsExternal_AnyCase(name) == ~HasSuffix(ToLower(name), << "." >> \o Domain)

\* !strings.HasSuffix(name, suffix): the name is not under the domain
IsExternal(name) == ~HasSuffix(name, << "." >> \o Domain)

\* a failure path that reports the failure as a name error
FailReply_NameError(r, m, steps, alias, target) ==
    QueryLog(r, FALSE, steps \o << "reply" >>,
             << [m EXCEPT !.rcode = "NXDOMAIN"] >>, alias, target)

\* a failure path that returns without writing the reply
FailReply_NoWrite(r, m, steps, alias, target) ==
    QueryLog(r, FALSE, steps, << >>, alias, target)

\* the failure paths: w.WriteMsg(m); return
FailReply(r, m, steps, alias, target) ==
    QueryLog(r, FALSE, steps \o << "reply" >>, << m >>, alias, target)

\* suffix := "." + *config.Domain
Suffix == << "." >> \o Domain

\* what GetEndpoints was asked and the error it returned
Target(serviceName, namespace, err) ==
    [serviceName |-> serviceName, namespace |-> namespace, err |-> err]

\* handleDNSRequest, the success path: one A record for each address, the
\* shuffle, the reply
AnswerQuery(r, m, steps, alias, target, subsets, js) ==
    QueryLog(r, FALSE, steps \o << "build", "shuffle", "reply" >>,
             << [m EXCEPT !.answer =
                    shuffleDNSAnswers(AnswerRecords(r.question[1].name, subsets), js)] >>,
             alias, target)

\* handleDNSRequest, after k8s.GetEndpoints(serviceName, namespace) returned
AfterEndpoints(r, m, steps, alias, serviceName, namespace, endpoints, js) ==
    IF endpoints.err # NoErr
    THEN FailReply(r, m, steps, alias, Target(serviceName, namespace, endpoints.err))
    ELSE AnswerQuery(r, m, steps, alias, Target(serviceName, namespace, NoErr),
                     endpoints.subsets, js)

\* handleDNSRequest, after parts := strings.SplitN(name, ".", 2)
AfterSplit(r, m, steps, alias, parts, listOk, js) ==
    IF Len(parts) # 2
    THEN FailReply(r, m, steps, alias, NoTarget)
    ELSE AfterEndpoints(r, m, steps \o << "endpoints" >>, alias, parts[1], parts[2],
                        GetEndpoints(parts[1], parts[2], listOk), js)

\* handleDNSRequest, after k8s.GetAddressForHostname(name) returned
AfterAlias(r, m, alias, listOk, js) ==
    IF alias.err # NoErr
    THEN FailReply(r, m, << "alias" >>, alias, NoTarget)
    ELSE AfterSplit(r, m, << "alias", "split" >>, alias,
                    SplitN2(TrimSuffix(alias.addr, Suffix)), listOk, js)

\* handleDNSRequest, the body for a question of type A; name is the query
\* name without its final dot
AddressQuery(r, m, name, listOk, js) ==
    IF IsExternal(name)
    THEN AfterAlias(r, m, GetAddressForHostname(name), listOk, js)
    ELSE AfterSplit(r, m, << "split" >>, NoAlias,
                    SplitN2(TrimSuffix(name, Suffix)), listOk, js)

\* handleDNSRequest(w, r). listOk and js are what the environment decides
\* during the run: whether the endpoint-slice List request succeeds, and the
\* numbers rand.Intn returns.
handleDNSRequest(r, listOk, js) ==
    IF Len(r.question) = 0
    THEN \* r.Question[0]: index out of range
         QueryLog(r, TRUE, << >>, << >>, NoAlias, NoTarget)
    ELSE IF ~IsTypeA(r.question[1])
    THEN QueryLog(r, FALSE, << "reply" >>, << NewReply(r) >>, NoAlias, NoTarget)
    ELSE AddressQuery(r, NewReply(r), TrimSuffix(r.question[1].name, << "." >>),
                      listOk, js)

\* ------------------------------------------------------------------------
\* package k8s: the service controller
\* ------------------------------------------------------------------------

ErrUpdate == "UpdateStatus failed"

\* svc.Name + "." + svc.Namespace + "." + *config.Domain
LbDNS(svc) == svc.name \o << "." >> \o svc.namespace \o << "." >> \o Domain

\* a comparison that asks for a write on every event
StatusDiffers_Always(lbDNS, svc) == Len(svc.status) >= 0

\* a comparison that forgets the IP field
StatusDiffers_HostnameOnly(lbDNS, svc) ==
    \/ Len(svc.status) # 1
    \/ svc.status[1].hostname # lbDNS

\* the comparison updateServiceStatus makes before writing
StatusDiffers(lbDNS, svc) ==
    \/ Len(svc.status) # 1
    \/ svc.status[1].ip # << >>
    \/ svc.status[1].hostname # lbDNS

\* updateServiceStatus(ctx, clientset, lbDNS, svc): the object as the call
\* leaves it, the UpdateStatus requests issued, and the error returned.
\* writeOk: whether the API server accepts an UpdateStatus request.
updateServiceStatus(lbDNS, svc, writeOk) ==
    IF StatusDiffers(lbDNS, svc)
    THEN LET set == [svc EXCEPT !.status = << [ip |-> << >>, hostname |-> lbDNS] >>]
         IN  [svc    |-> set,
              writes |-> << set.status >>,
              err    |-> IF writeOk THEN NoErr ELSE ErrUpdate]
    ELSE [svc |-> svc, writes |-> << >>, err |-> NoErr]

\* serviceMap[key] = value
\* a cache that holds the latest binding only
MapPut_Single(map, key, value) == [k \in {key} |-> value]

MapPut(map, key, value) ==
    [k \in DOMAIN map \cup {key} |-> IF k = key THEN value ELSE map[k]]

\* What one run of onAddOrUpdate did: the object as it leaves it, the
\* UpdateStatus requests issued, the error logged and the map afterwards.
EventLog(obj, svc, writes, err, map) ==
    [kind |-> "event", obj |-> obj, svc |-> svc, writes |-> writes,
     err |-> err, serviceMap |-> map]

\* a controller that also takes the services without a class
HasLBClass_NilAllowed(svc) == svc.class = NilPtr \/ svc.class = LBClass

\* svc.Spec.LoadBalancerClass is set and equals LBClass
HasLBClass(svc) == ~(svc.class = NilPtr \/ svc.class # LBClass)

\* a controller that records the alias as written in the annotation
HostnameKey_Raw(hostname) == hostname

\* hostnameKey := canonicalHostname(hostname)
HostnameKey(hostname) == canonicalHostname(hostname)

\* an annotation block that keeps the binding a key already has
RecordAlias_FirstWins(svc, lbDNS) ==
    IF svc.annot.exists
    THEN IF HostnameKey(svc.annot.val) = << >> THEN serviceMap
         ELSE IF HostnameKey(svc.annot.val) \in DOMAIN serviceMap THEN serviceMap
         ELSE MapPut(serviceMap, HostnameKey(svc.annot.val), lbDNS)
    ELSE serviceMap

\* onAddOrUpdate, the annotation block: the map after it
RecordAlias(svc, lbDNS) ==
    IF svc.annot.exists
    THEN IF HostnameKey(svc.annot.val) = << >> THEN serviceMap
         ELSE MapPut(serviceMap, HostnameKey(svc.annot.val), lbDNS)
    ELSE serviceMap

\* a handler that returns when the status write fails
AfterStatus_ReturnOnError(obj, lbDNS, upd) ==
    IF upd.err # NoErr
    THEN EventLog(obj, upd.svc, upd.writes, upd.err, serviceMap)
    ELSE EventLog(obj, upd.svc, upd.writes, upd.err, RecordAlias(upd.svc, lbDNS))

\* onAddOrUpdate, after updateServiceStatus returned upd: the error is
\* logged and the annotation block runs
AfterStatus(obj, lbDNS, upd) ==
    EventLog(obj, upd.svc, upd.writes, upd.err, RecordAlias(upd.svc, lbDNS))

\* onAddOrUpdate(ctx, obj). obj.isService: the type assertion obj.(*v1.Service)
onAddOrUpdate(obj, writeOk) ==
    IF ~obj.isService
    THEN EventLog(obj, obj.svc, << >>, NoErr, serviceMap)
    ELSE IF obj.svc.type # "LoadBalancer"
    THEN EventLog(obj, obj.svc, << >>, NoErr, serviceMap)
    ELSE IF ~HasLBClass(obj.svc)
    THEN EventLog(obj, obj.svc, << >>, NoErr, serviceMap)
    ELSE AfterStatus(obj, LbDNS(obj.svc),
                     updateServiceStatus(LbDNS(obj.svc), obj.svc, writeOk))

\* ------------------------------------------------------------------------
\* The cluster the model runs against: two services, and the snapshots the
\* listers and the endpoint-slice API can hold
\* ------------------------------------------------------------------------

SvcIds == {"mq", "web"}

SvcName(id) == IF id = "mq" THEN << "m", "q" >> ELSE << "w", "e", "b" >>

SvcNamespace(id) == << "a", "u" >>

\* name.namespace.domain of a service
Fqdn(id) == SvcName(id) \o << "." >> \o SvcNamespace(id) \o << "." >> \o Domain

Absent == [present |-> FALSE]

Annot(val) == [exists |-> TRUE, val |-> val]

NoAnnot == [exists |-> FALSE, val |-> << >>]

\* the spec and metadata a user can give a service: type, loadBalancerClass
\* and the minilb/host annotation
SvcSpecs(id) ==
    IF id = "mq"
    THEN { [type |-> "LoadBalancer", class |-> "minilb", annot |-> NoAnnot],
           [type |-> "LoadBalancer", class |-> "minilb", annot |-> Annot(<< "M", "Q", ".", "i", "o", "." >>)],
           [type |-> "LoadBalancer", class |-> "minilb", annot |-> Annot(<< "x", ".", "y", ".", "m", "i", "n", "i", "l", "b" >>)],
           [type |-> "LoadBalancer", class |-> "minilb", annot |-> Annot(<< " ", "." >>)],
           [type |-> "ClusterIP",    class |-> NilPtr,   annot |-> Annot(<< "M", "Q", ".", "i", "o", "." >>)],
           [type |-> "LoadBalancer", class |-> NilPtr,   annot |-> Annot(<< "M", "Q", ".", "i", "o", "." >>)],
           [type |-> "LoadBalancer", class |-> "other",  annot |-> Annot(<< "M", "Q", ".", "i", "o", "." >>)] }
    ELSE { [type |-> "LoadBalancer", class |-> "minilb", annot |-> Annot(<< "m", "q", ".", "i", "o" >>)] }

\* the services the controller manages, as used with the DNS server
ManagedSpecs ==
    { spec \in SvcSpecs("mq") :
         /\ spec.type = "LoadBalancer"
         /\ spec.class = LBClass
         /\ spec.annot.exists
         /\ canonicalHostname(spec.annot.val) # << >> }

LbEntry(ip, hostname) == [ip |-> ip, hostname |-> hostname]

\* the load-balancer statuses something other than minilb can leave
ForeignStatuses(id) ==
    IF id = "mq"
    THEN { << LbEntry(<< "1", "0", ".", "0", ".", "0", ".", "9" >>, << >>) >>,
           << LbEntry(<< >>, << "o", "l", "d", ".", "l", "b" >>) >>,
           << LbEntry(<< "1", "0", ".", "0", ".", "0", ".", "9" >>, Fqdn(id)) >>,
           << LbEntry(<< >>, Fqdn(id)), LbEntry(<< "1", "0", ".", "0", ".", "0", ".", "9" >>, << >>) >> }
    ELSE { }

NewService(id, spec) ==
    [present |-> TRUE, name |-> SvcName(id), namespace |-> SvcNamespace(id),
     type |-> spec.type, class |-> spec.class, annot |-> spec.annot,
     status |-> << >>]

Ingress(rules, status) == [rules |-> rules, status |-> status]

Route(ns, hostnames, parentRefs) ==
    [ns |-> ns, hostnames |-> hostnames, parentRefs |-> parentRefs]

ParentRef(kind, ns, name) == [kind |-> kind, ns |-> ns, name |-> name]

Gateway(ns, name, addresses) ==
    [ns |-> ns, name |-> name, addresses |-> addresses]

\* the listers before the informers have synced. gatewayNil: the Gateway-API
\* client could not be built, so its four listers stay nil. ingressErr,
\* httpErr, tlsErr, grpcErr: the error List(labels.Everything()) returns
EmptyListers(gatewayNil) ==
    [ingressNil |-> FALSE, ingresses |-> << >>, ingressErr |-> NoErr,
     httpNil |-> gatewayNil, httpRoutes |-> << >>, httpErr |-> NoErr,
     tlsNil |-> gatewayNil, tlsRoutes |-> << >>, tlsErr |-> NoErr,
     grpcNil |-> gatewayNil, grpcRoutes |-> << >>, grpcErr |-> NoErr,
     gatewayNil |-> gatewayNil, gateways |-> {}]

IngressesA ==
    << Ingress(<< << "p", ".", "i", "o" >>, << "m", "q", ".", "i", "o" >> >>, << LbEntry(<< >>, Fqdn("web")) >>) >>

IngressesB ==
    << Ingress(<< << "*", ".", "i", "o" >> >>, << >>),
       Ingress(<< << "P", ".", "i", "o" >> >>, << LbEntry(<< "1", "0", ".", "0", ".", "0", ".", "9" >>, << >>) >>),
       Ingress(<< << "p", ".", "i", "o" >>, << "m", "q", ".", "i", "o" >>,
                  << "x", ".", "y", ".", "m", "i", "n", "i", "l", "b" >> >>,
               << LbEntry(<< >>, Fqdn("web")) >>) >>

HTTPRoutesA ==
    << Route("gwns", << << "p", ".", "i", "o" >>, << "h", ".", "i", "o" >> >>,
             << ParentRef(NilPtr, NilPtr, "gw1") >>) >>

TLSRoutesA ==
    << Route("gwns", << << "*", ".", "t", ".", "i", "o" >> >>,
             << ParentRef("Service", NilPtr, "gw1"),
                ParentRef("Gateway", "other", "gw2") >>) >>

GRPCRoutesA ==
    << Route("gwns", << >>, << ParentRef(NilPtr, NilPtr, "gw1") >>),
       Route("gwns", << << "g", ".", "i", "o" >> >>, << ParentRef(NilPtr, "", "gw1") >>) >>

GatewaysA ==
    { Gateway("gwns", "gw1", << << >>, Fqdn("mq") >>),
      Gateway("other", "gw2", << Fqdn("web") >>) }

\* the snapshots the listers can hold once synced
ListerWorlds(gatewayNil) ==
    { [EmptyListers(gatewayNil) EXCEPT !.ingresses = IngressesA],
      [EmptyListers(gatewayNil) EXCEPT !.ingresses = IngressesB] }
    \cup
    IF gatewayNil THEN { }
    ELSE { [EmptyListers(FALSE) EXCEPT
               !.ingresses = IngressesA, !.httpRoutes = HTTPRoutesA,
               !.tlsRoutes = TLSRoutesA, !.grpcRoutes = GRPCRoutesA,
               !.gateways = GatewaysA] }

Endpoint(addresses, ready, serving, terminating) ==
    [addresses |-> addresses, ready |-> ready, serving |-> serving,
     terminating |-> terminating]

Slice(id, addressType, endpoints) ==
    [ns |-> SvcNamespace(id), svc |-> SvcName(id),
     addressType |-> addressType, endpoints |-> endpoints]

\* the endpoint slices the API server can hold
SliceWorlds ==
    { << Slice("mq", "IPv4",
               << Endpoint(<< "10.244.19.168" >>, "true", "true", "false"),
                  Endpoint(<< "10.244.1.103" >>, NilPtr, NilPtr, NilPtr),
                  Endpoint(<< "10.244.2.7" >>, "false", NilPtr, NilPtr) >>),
         Slice("mq", "IPv6",
               << Endpoint(<< "fd00::1" >>, "true", NilPtr, NilPtr) >>),
         Slice("web", "IPv4",
               << Endpoint(<< "10.244.2.7" >>, "true", NilPtr, NilPtr) >>) >>,
      << Slice("mq", "IPv4",
               << Endpoint(<< "10.244.19.168" >>, "true", NilPtr, "true") >>),
         Slice("mq", "IPv4",
               << Endpoint(<< "10.244.1.103" >>, NilPtr, NilPtr, NilPtr) >>),
         Slice("mq", "IPv4",
               << Endpoint(<< "10.244.1.103" >>, "true", "true", NilPtr) >>),
         Slice("web", "IPv4",
               << Endpoint(<< "10.244.2.7" >>, "true", "false", NilPtr) >>) >> }

Question(name, qtype) == [name |-> name, qtype |-> qtype]

Msg(question) == [question |-> question]

\* the names clients ask for
QueryNames ==
    { << "m", "q", ".", "a", "u", ".", "m", "i", "n", "i", "l", "b", "." >>, << "w", "e", "b", ".", "a", "u", ".", "m", "i", "n", "i", "l", "b", "." >>, << "m", "q", ".", "i", "o", "." >>, << "M", "Q", ".", "i", "o", "." >>, << "x", ".", "y", ".", "m", "i", "n", "i", "l", "b", "." >>,
      << "p", ".", "i", "o", "." >>, << "h", ".", "i", "o", "." >>, << "a", ".", "t", ".", "i", "o", "." >>, << "g", ".", "i", "o", "." >>, << "m", "i", "n", "i", "l", "b", "." >>, << "m", "q", ".", "m", "i", "n", "i", "l", "b", "." >>, << "." >>,
      << "a", ".", "m", "q", ".", "a", "u", ".", "m", "i", "n", "i", "l", "b", "." >> }

\* the messages the DNS server hands to the handler
Messages ==
    { Msg(<< Question(n, "A") >>) : n \in QueryNames }
    \cup { Msg(<< Question(<< "m", "q", ".", "a", "u", ".", "m", "i", "n", "i", "l", "b", "." >>, "AAAA") >>),
           Msg(<< Question(<< "m", "q", ".", "i", "o", "." >>, "TXT") >>),
           Msg(<< >>) }

\* ------------------------------------------------------------------------
\* State machine
\* ------------------------------------------------------------------------

\* the handler panicked: nothing recovers it, the process is gone
\* the goroutine of the informer that runs the event handlers, and the
\* goroutines the DNS server starts for the queries
Informer == "informer"

Queries == {"q1", "q2"}

NoHolder == "none"

\* mutex = sync.RWMutex{}: the goroutine holding the write lock, the
\* goroutines holding read locks, the goroutines blocked in Lock
FreeMutex == [writer |-> NoHolder, readers |-> { }, waiting |-> { }]

\* a goroutine that runs no handler
Idle == [pc |-> "idle"]

AllIdle == [g \in {Informer} \cup Queries |-> Idle]

Crashed == last.kind = "query" /\ last.panicked

EnvLog == [kind |-> "env"]

\* stale: the API server's copy is newer, an update event is on its way
Cached(svc, stale) == [present |-> TRUE, svc |-> svc, stale |-> stale]

NotCached == [present |-> FALSE, svc |-> Absent, stale |-> FALSE]

Init ==
    /\ api = [id \in SvcIds |-> Absent]
    /\ store = [id \in SvcIds |-> NotCached]
    /\ serviceMap = [k \in {} |-> << >>]
    /\ mutex = FreeMutex
    /\ goroutines = AllIdle
    /\ listers \in {EmptyListers(TRUE), EmptyListers(FALSE)}
    /\ slices = << >>
    /\ last = [kind |-> "init"]

\* onAddOrUpdate runs on the object obj of service id, which the API server
\* holds as current. An UpdateStatus request the server accepts replaces the
\* status it holds, and the informer's cached object (the one the handler
\* was given, as the handler left it) is then behind.
Deliver(id, current, obj, writeOk, staleBefore) ==
    LET log      == onAddOrUpdate([isService |-> TRUE, svc |-> obj], writeOk)
        accepted == Len(log.writes) > 0 /\ writeOk
    IN  /\ store' = [store EXCEPT ![id] = Cached(log.svc, staleBefore \/ accepted)]
        /\ api' = [api EXCEPT ![id] =
                      IF accepted THEN [current EXCEPT !.status = log.writes[1]]
                      ELSE current]
        /\ serviceMap' = log.serviceMap
        /\ last' = log
        /\ UNCHANGED << listers, slices, mutex, goroutines >>

\* AddFunc / UpdateFunc: a user creates the service, or changes its type,
\* class or annotation, and the informer hands the new object to the handler
ServiceApplied(id, spec, writeOk) ==
    LET current == IF api[id].present
                   THEN [api[id] EXCEPT !.type = spec.type, !.class = spec.class,
                                        !.annot = spec.annot]
                   ELSE NewService(id, spec)
    IN  /\ ~Crashed
        /\ current # api[id]
        /\ Deliver(id, current, current, writeOk, FALSE)

\* UpdateFunc: something other than minilb writes the service's
\* load-balancer status, and the informer hands the new object to the handler
StatusChanged(id, status, writeOk) ==
    /\ ~Crashed
    /\ api[id].present
    /\ api[id].status # status
    /\ Deliver(id, [api[id] EXCEPT !.status = status],
               [api[id] EXCEPT !.status = status], writeOk, FALSE)

\* UpdateFunc: the update event that follows an accepted UpdateStatus
WriteObserved(id, writeOk) ==
    /\ ~Crashed
    /\ store[id].present
    /\ store[id].stale
    /\ Deliver(id, api[id], api[id], writeOk, FALSE)

\* UpdateFunc on a resync: the informer hands the object it has cached to
\* the handler again. A cached object that is behind cannot be written
\* (the server answers with a conflict).
Resync(id, writeOk) ==
    /\ ~Crashed
    /\ store[id].present
    /\ writeOk => ~store[id].stale
    /\ Deliver(id, api[id], store[id].svc, writeOk, store[id].stale)

\* a user deletes the service; no delete handler is registered
ServiceDeleted(id) ==
    /\ ~Crashed
    /\ api[id].present
    /\ api' = [api EXCEPT ![id] = Absent]
    /\ store' = [store EXCEPT ![id] = NotCached]
    /\ last' = EnvLog
    /\ UNCHANGED << serviceMap, listers, slices, mutex, goroutines >>

\* an event whose object is not a *v1.Service
OtherEvent ==
    /\ ~Crashed
    /\ LET log == onAddOrUpdate([isService |-> FALSE, svc |-> Absent], TRUE)
       IN  /\ serviceMap' = log.serviceMap
           /\ last' = log
    /\ UNCHANGED << api, store, listers, slices, mutex, goroutines >>

\* the ingress, route and gateway informers receive the cluster's objects
ListerSync(world) ==
    /\ ~Crashed
    /\ world # listers
    /\ listers' = world
    /\ last' = EnvLog
    /\ UNCHANGED << api, store, serviceMap, slices, mutex, goroutines >>

\* pods come and go: the API server's endpoint slices change
SliceSync(world) ==
    /\ ~Crashed
    /\ world # slices
    /\ slices' = world
    /\ last' = EnvLog
    /\ UNCHANGED << api, store, serviceMap, listers, mutex, goroutines >>

\* the most records one reply carries
MaxAnswers == 4

\* the draws that leave every record in place: rand.Intn(i + 1) = i
NoShuffle == [i \in 1 .. MaxAnswers |-> i - 1]

\* the number of random numbers the handler's shuffle draws for a message:
\* one for each record it builds
DrawCount(msg, listOk) ==
    LET log == handleDNSRequest(msg, listOk, NoShuffle)
    IN  IF Len(log.replies) = 0 THEN 0 ELSE Len(log.replies[1].answer)

\* a handler that keeps the name it resolved for an alias in the cache
HandleQuery_Caching(msg, listOk) ==
    /\ ~Crashed
    /\ LET n == DrawCount(msg, listOk)
       IN  \E js \in RandomDraws(n) : last' = handleDNSRequest(msg, listOk, js)
    /\ serviceMap' =
          IF last'.alias.err = NoErr
          THEN MapPut(serviceMap,
                      canonicalHostname(TrimSuffix(msg.question[1].name, << "." >>)),
                      last'.alias.addr)
          ELSE serviceMap
    /\ UNCHANGED << api, store, listers, slices, mutex, goroutines >>

\* the DNS server hands a message to handleDNSRequest
HandleQuery(msg, listOk) ==
    /\ ~Crashed
    /\ LET n == DrawCount(msg, listOk)
       IN  \E js \in RandomDraws(n) : last' = handleDNSRequest(msg, listOk, js)
    /\ UNCHANGED << api, store, serviceMap, listers, slices, mutex, goroutines >>

\* The DNS server with the controller reconciling service "mq".
Next ==
    \/ \E spec \in ManagedSpecs, writeOk \in BOOLEAN :
          ServiceApplied("mq", spec, writeOk)
    \/ \E writeOk \in BOOLEAN : WriteObserved("mq", writeOk)
    \/ \E writeOk \in BOOLEAN : Resync("mq", writeOk)
    \/ ServiceDeleted("mq")
    \/ \E world \in ListerWorlds(listers.gatewayNil) : ListerSync(world)
    \/ \E world \in SliceWorlds : SliceSync(world)
    \/ \E msg \in Messages, listOk \in BOOLEAN : HandleQuery(msg, listOk)

Spec == Init /\ [][Next]_vars

\* The controller alone, with every kind of service object and status.
NextCtl ==
    \/ \E id \in SvcIds : \E spec \in SvcSpecs(id) : \E writeOk \in BOOLEAN :
          ServiceApplied(id, spec, writeOk)
    \/ \E id \in SvcIds : \E status \in ForeignStatuses(id) :
          \E writeOk \in BOOLEAN : StatusChanged(id, status, writeOk)
    \/ \E id \in SvcIds, writeOk \in BOOLEAN : WriteObserved(id, writeOk)
    \/ \E id \in SvcIds, writeOk \in BOOLEAN : Resync(id, writeOk)
    \/ \E id \in SvcIds : ServiceDeleted(id)
    \/ OtherEvent

SpecCtl == Init /\ [][NextCtl]_vars

\* the A questions for the hostnames the services are given
AliasMessages ==
    { Msg(<< Question(<< "m", "q", ".", "i", "o", "." >>, "A") >>),
      Msg(<< Question(<< "x", ".", "y", ".", "m", "i", "n", "i", "l", "b", "." >>, "A") >>) }

\* The controller for both services with the DNS server answering.
NextCache ==
    \/ NextCtl
    \/ \E msg \in AliasMessages, listOk \in BOOLEAN : HandleQuery(msg, listOk)

SpecCache == Init /\ [][NextCache]_vars

\* ------------------------------------------------------------------------
\* The hostname functions on every short string
\* ------------------------------------------------------------------------

MaxNameLen == 3

\* a lower-case letter, an upper-case letter, the label separator, the
\* wildcard character and white space
Alphabet == {"a", "B", ".", "*", " "}

\* the strings over an alphabet of length at most n
Strings(alphabet, n) == UNION { [1 .. k -> alphabet] : k \in 0 .. n }

Names == Strings(Alphabet, MaxNameLen)

\* canonicalHostname is applied to a string
Canonicalize(host) ==
    /\ last' = [kind |-> "canonical", host |-> host,
                out |-> canonicalHostname(host)]
    /\ UNCHANGED << api, store, serviceMap, listers, slices, mutex, goroutines >>

NextCanon == \E host \in Names : Canonicalize(host)

SpecCanon == Init /\ [][NextCanon]_vars

MaxBindings == 1

\* AddFunc / UpdateFunc for service mq, managed, with the annotation set to
\* host, while the cache holds fewer than MaxBindings bindings
AliasApplied(host) ==
    /\ Cardinality(DOMAIN serviceMap) < MaxBindings
    /\ ServiceApplied("mq", [type |-> "LoadBalancer", class |-> LBClass,
                             annot |-> Annot(host)], TRUE)

NextAlias == \E host \in Names : AliasApplied(host)

SpecAlias == Init /\ [][NextAlias]_vars

\* the hostnames of the package documentation
ExampleCom == << "e", "x", "a", "m", "p", "l", "e", ".", "c", "o", "m" >>
WildExampleCom == << "*", "." >> \o ExampleCom
AExampleCom == << "a", "." >> \o ExampleCom
ABExampleCom == << "a", ".", "b", "." >> \o ExampleCom
\* a name that ends with example.com without being below it
BadExampleCom == << "b", "a", "d" >> \o ExampleCom

ExamplePairs ==
    { << WildExampleCom, AExampleCom >>, << WildExampleCom, ABExampleCom >>,
      << ExampleCom, ExampleCom >>, << WildExampleCom, ExampleCom >>,
      << ExampleCom, AExampleCom >>, << WildExampleCom, BadExampleCom >> }

\* the (candidate, query) pairs given to hostnameMatches
MatchPairs == (Names \X Names) \cup ExamplePairs

InitMatch ==
    /\ api = [id \in SvcIds |-> Absent]
    /\ store = [id \in SvcIds |-> NotCached]
    /\ serviceMap = [k \in {} |-> << >>]
    /\ mutex = FreeMutex
    /\ goroutines = AllIdle
    /\ listers = EmptyListers(TRUE)
    /\ slices = << >>
    /\ \E pair \in MatchPairs :
          last = [kind |-> "pair", candidate |-> pair[1], query |-> pair[2]]

Match ==
    /\ last.kind = "pair"
    /\ last' = [kind |-> "match", candidate |-> last.candidate,
                query |-> last.query,
                out |-> hostnameMatches(last.candidate, last.query)]
    /\ UNCHANGED << api, store, serviceMap, listers, slices, mutex, goroutines >>

NextMatch == Match

SpecMatch == InitMatch /\ [][NextMatch]_vars

\* the values of a condition of an endpoint (*bool)
ConditionValues == {NilPtr, "true", "false"}

\* every endpoint with none, one or two addresses and every combination of
\* conditions
EndpointKinds ==
    { Endpoint(addresses, ready, serving, terminating) :
        addresses \in { << >>, << "10.244.19.168" >>,
                        << "10.244.19.168", "10.244.1.103" >> },
        ready \in ConditionValues, serving \in ConditionValues,
        terminating \in ConditionValues }

\* the endpoints that can stand beside it in its slice
Companions ==
    { << >>,
      << Endpoint(<< "10.244.2.7" >>, NilPtr, NilPtr, NilPtr) >>,
      << Endpoint(<< "10.244.2.7" >>, "false", NilPtr, NilPtr) >> }

\* the slices of service mq that hold such an endpoint
EndpointSlices ==
    { Slice("mq", addressType, endpoints) :
        addressType \in {"IPv4", "IPv6"},
        endpoints \in UNION { { << e >> \o c, c \o << e >> } :
                                 e \in EndpointKinds, c \in Companions } }

\* the slices that can stand beside it in the namespace
CompanionSlices ==
    { << >>,
      << Slice("mq", "IPv4",
               << Endpoint(<< "10.244.2.7" >>, "true", "true", "false") >>) >>,
      << Slice("mq", "IPv4",
               << Endpoint(<< "10.244.2.7" >>, "true", NilPtr, "true") >>) >>,
      << Slice("mq", "IPv6",
               << Endpoint(<< "fd00::1" >>, "true", NilPtr, NilPtr) >>) >>,
      << Slice("web", "IPv4",
               << Endpoint(<< "10.244.2.7" >>, "true", NilPtr, NilPtr) >>) >> }

EndpointWorlds ==
    UNION { { << sl >> \o c, c \o << sl >> } :
              sl \in EndpointSlices, c \in CompanionSlices }

InitEndpoints ==
    /\ api = [id \in SvcIds |-> Absent]
    /\ store = [id \in SvcIds |-> NotCached]
    /\ serviceMap = [k \in {} |-> << >>]
    /\ mutex = FreeMutex
    /\ goroutines = AllIdle
    /\ listers = EmptyListers(TRUE)
    /\ slices \in EndpointWorlds
    /\ last = [kind |-> "init"]

\* a call of k8s.GetEndpoints for service id
ListEndpoints(id, listOk) ==
    /\ last' = [kind |-> "endpoints", serviceName |-> SvcName(id),
                namespace |-> SvcNamespace(id), listOk |-> listOk,
                out |-> GetEndpoints(SvcName(id), SvcNamespace(id), listOk)]
    /\ UNCHANGED << api, store, serviceMap, listers, slices, mutex, goroutines >>

\* the A questions for the services by their own names
DirectMessages ==
    { Msg(<< Question(Fqdn(id) \o << "." >>, "A") >>) : id \in SvcIds }

NextEndpoints ==
    \/ \E id \in SvcIds, listOk \in BOOLEAN : ListEndpoints(id, listOk)
    \/ \E msg \in DirectMessages, listOk \in BOOLEAN : HandleQuery(msg, listOk)

SpecEndpoints == InitEndpoints /\ [][NextEndpoints]_vars

\* ------------------------------------------------------------------------
\* The event handler and the lookups, statement by statement
\* ------------------------------------------------------------------------

\* sync.RWMutex: RLock waits while a writer holds the lock or is blocked in
\* Lock; Lock waits for the writer and the readers to leave
CanRLock(m) == m.writer = NoHolder /\ m.waiting = { }

RLocked(m, g) == [m EXCEPT !.readers = @ \cup {g}]

RUnlocked(m, g) == [m EXCEPT !.readers = @ \ {g}]

LockRequested(m, g) == [m EXCEPT !.waiting = @ \cup {g}]

CanLock(m) == m.writer = NoHolder /\ m.readers = { }

Locked(m, g) == [m EXCEPT !.writer = g, !.waiting = @ \ {g}]

\* a handler that returns without mutex.Unlock()
Unlocked_Forgotten(m, g) == m

Unlocked(m, g) == [m EXCEPT !.writer = NoHolder]

\* what a read of the map that runs beside a write of the map can yield
Torn == [ok |-> TRUE, svcHost |-> << "<torn>" >>]

\* svcHost, ok := serviceMap[canonical]
MapGet(map, key) ==
    IF key \in DOMAIN map THEN [ok |-> TRUE, svcHost |-> map[key]]
    ELSE [ok |-> FALSE, svcHost |-> << >>]

\* GetAddressForHostname after the cache had no binding: the ingress stage
\* and the route stages in order
LookupStages(canonical) ==
    LET ingress == resolveIngressHostname(canonical)
        http    == resolveHTTPRouteHostname(canonical)
        tls     == resolveTLSRouteHostname(canonical)
        grpc    == resolveGRPCRouteHostname(canonical)
    IN  IF ingress.err # NoErr THEN Res(<< >>, ingress.err)
        ELSE IF ingress.addr # << >> THEN Res(ingress.addr, NoErr)
        ELSE IF http.err # NoErr THEN Res(<< >>, http.err)
        ELSE IF http.addr # << >> THEN Res(http.addr, NoErr)
        ELSE IF tls.err # NoErr THEN Res(<< >>, tls.err)
        ELSE IF tls.addr # << >> THEN Res(tls.addr, NoErr)
        ELSE IF grpc.err # NoErr THEN Res(<< >>, grpc.err)
        ELSE IF grpc.addr # << >> THEN Res(grpc.addr, NoErr)
        ELSE Res(<< >>, ErrHostnameNotFound)

Step(g, pc) == [kind |-> "step", goroutine |-> g, pc |-> pc]

\* GetAddressForHostname(hostname) has returned out to goroutine g
Returned(g, hostname, out) ==
    [kind |-> "lookup", goroutine |-> g, hostname |-> hostname, out |-> out]

\* AddFunc / UpdateFunc: a user applies a spec to service mq and the informer
\* calls onAddOrUpdate, which returns at once for an unmanaged service
EventBegin(spec) ==
    LET current == IF api["mq"].present
                   THEN [api["mq"] EXCEPT !.type = spec.type,
                                          !.class = spec.class,
                                          !.annot = spec.annot]
                   ELSE NewService("mq", spec)
        managed == HasLBClass(current) /\ current.type = "LoadBalancer"
    IN  /\ goroutines[Informer].pc = "idle"
        /\ current # api["mq"]
        /\ api' = [api EXCEPT !["mq"] = current]
        /\ store' = [store EXCEPT !["mq"] = Cached(current, FALSE)]
        /\ goroutines' = [goroutines EXCEPT ![Informer] =
                             IF managed THEN [pc |-> "status", svc |-> current]
                             ELSE Idle]
        /\ last' = Step(Informer, goroutines'[Informer].pc)
        /\ UNCHANGED << serviceMap, listers, slices, mutex >>

\* onAddOrUpdate: updateServiceStatus, outside the lock
EventStatus(writeOk) ==
    /\ goroutines[Informer].pc = "status"
    /\ LET svc      == goroutines[Informer].svc
           upd      == updateServiceStatus(LbDNS(svc), svc, writeOk)
           accepted == Len(upd.writes) > 0 /\ writeOk
           records  == /\ svc.annot.exists
                       /\ HostnameKey(svc.annot.val) # << >>
       IN  /\ api' = [api EXCEPT !["mq"] =
                         IF accepted /\ @.present
                         THEN [@ EXCEPT !.status = upd.writes[1]] ELSE @]
           /\ store' = [store EXCEPT !["mq"] = Cached(upd.svc, accepted)]
           /\ goroutines' = [goroutines EXCEPT ![Informer] =
                                IF records THEN [pc |-> "lock", svc |-> upd.svc]
                                ELSE Idle]
    /\ last' = Step(Informer, goroutines'[Informer].pc)
    /\ UNCHANGED << serviceMap, listers, slices, mutex >>

\* mutex.Lock() is called and blocks new readers
EventLock ==
    /\ goroutines[Informer].pc = "lock"
    /\ mutex' = LockRequested(mutex, Informer)
    /\ goroutines' = [goroutines EXCEPT ![Informer].pc = "lockwait"]
    /\ last' = Step(Informer, "lockwait")
    /\ UNCHANGED << api, store, serviceMap, listers, slices >>

\* mutex.Lock() returns
EventLocked ==
    /\ goroutines[Informer].pc = "lockwait"
    /\ CanLock(mutex)
    /\ mutex' = Locked(mutex, Informer)
    /\ goroutines' = [goroutines EXCEPT ![Informer].pc = "assign"]
    /\ last' = Step(Informer, "assign")
    /\ UNCHANGED << api, store, serviceMap, listers, slices >>

\* serviceMap[hostnameKey] = lbDNS begins to write the map
EventAssign ==
    /\ goroutines[Informer].pc = "assign"
    /\ goroutines' = [goroutines EXCEPT ![Informer].pc = "assigning"]
    /\ last' = Step(Informer, "assigning")
    /\ UNCHANGED << api, store, serviceMap, listers, slices, mutex >>

\* serviceMap[hostnameKey] = lbDNS has written the map
EventAssigned ==
    /\ goroutines[Informer].pc = "assigning"
    /\ serviceMap' = RecordAlias(goroutines[Informer].svc,
                                 LbDNS(goroutines[Informer].svc))
    /\ goroutines' = [goroutines EXCEPT ![Informer].pc = "unlock"]
    /\ last' = Step(Informer, "unlock")
    /\ UNCHANGED << api, store, listers, slices, mutex >>

\* mutex.Unlock(), and the handler returns
EventUnlock ==
    /\ goroutines[Informer].pc = "unlock"
    /\ mutex' = Unlocked(mutex, Informer)
    /\ goroutines' = [goroutines EXCEPT ![Informer] = Idle]
    /\ last' = Step(Informer, "idle")
    /\ UNCHANGED << api, store, serviceMap, listers, slices >>

\* GetAddressForHostname(hostname) is called for a query
LookupBegin(q, hostname) ==
    /\ goroutines[q].pc = "idle"
    /\ goroutines' = [goroutines EXCEPT ![q] =
                         IF canonicalHostname(hostname) = << >>
                         THEN Idle
                         ELSE [pc |-> "rlock", hostname |-> hostname,
                               canonical |-> canonicalHostname(hostname)]]
    /\ last' = IF canonicalHostname(hostname) = << >>
               THEN Returned(q, hostname, Res(<< >>, ErrInvalidHostname))
               ELSE Step(q, "rlock")
    /\ UNCHANGED << api, store, serviceMap, listers, slices, mutex >>

\* mutex.RLock() returns
LookupRLock(q) ==
    /\ goroutines[q].pc = "rlock"
    /\ CanRLock(mutex)
    /\ mutex' = RLocked(mutex, q)
    /\ goroutines' = [goroutines EXCEPT ![q].pc = "read"]
    /\ last' = Step(q, "read")
    /\ UNCHANGED << api, store, serviceMap, listers, slices >>

\* svcHost, ok := serviceMap[canonical]; a read that runs while the map is
\* being written is a data race and can yield anything
LookupRead(q) ==
    /\ goroutines[q].pc = "read"
    /\ \E seen \in IF goroutines[Informer].pc = "assigning"
                    THEN {Torn, MapGet(serviceMap, goroutines[q].canonical),
                          MapGet(RecordAlias(goroutines[Informer].svc,
                                             LbDNS(goroutines[Informer].svc)),
                                 goroutines[q].canonical)}
                    ELSE {MapGet(serviceMap, goroutines[q].canonical)} :
          goroutines' = [goroutines EXCEPT ![q] =
                            [pc |-> "runlock", hostname |-> @.hostname,
                             canonical |-> @.canonical, seen |-> seen]]
    /\ last' = Step(q, "runlock")
    /\ UNCHANGED << api, store, serviceMap, listers, slices, mutex >>

\* mutex.RUnlock(); a binding that was found is returned
LookupRUnlock(q) ==
    /\ goroutines[q].pc = "runlock"
    /\ mutex' = RUnlocked(mutex, q)
    /\ goroutines' = [goroutines EXCEPT ![q] =
                         IF @.seen.ok THEN Idle
                         ELSE [pc |-> "stages", hostname |-> @.hostname,
                               canonical |-> @.canonical]]
    /\ last' = IF goroutines[q].seen.ok
               THEN Returned(q, goroutines[q].hostname,
                             Res(goroutines[q].seen.svcHost, NoErr))
               ELSE Step(q, "stages")
    /\ UNCHANGED << api, store, serviceMap, listers, slices >>

\* the ingress and route stages read the listers, and the lookup returns
LookupReturn(q) ==
    /\ goroutines[q].pc = "stages"
    /\ goroutines' = [goroutines EXCEPT ![q] = Idle]
    /\ last' = Returned(q, goroutines[q].hostname,
                        LookupStages(goroutines[q].canonical))
    /\ UNCHANGED << api, store, serviceMap, listers, slices, mutex >>

\* the hostnames looked up while events are handled
LookupNames ==
    { << "m", "q", ".", "i", "o", "." >>,
      << "x", ".", "y", ".", "m", "i", "n", "i", "l", "b" >>,
      << "h", ".", "i", "o" >>, << "." >> }

NextLock ==
    \/ \E spec \in SvcSpecs("mq") : EventBegin(spec)
    \/ \E writeOk \in BOOLEAN : EventStatus(writeOk)
    \/ EventLock
    \/ EventLocked
    \/ EventAssign
    \/ EventAssigned
    \/ EventUnlock
    \/ \E q \in Queries, hostname \in LookupNames : LookupBegin(q, hostname)
    \/ \E q \in Queries : LookupRLock(q)
    \/ \E q \in Queries : LookupRead(q)
    \/ \E q \in Queries : LookupRUnlock(q)
    \/ \E q \in Queries : LookupReturn(q)

SpecLock == Init /\ [][NextLock]_vars

\* ------------------------------------------------------------------------
\* Properties of the query handler
\* ------------------------------------------------------------------------

\* the last operation was a run of the handler on a message with a question
Handled == last.kind = "query" /\ Len(last.msg.question) > 0

\* the path the run took, read off the calls it made
NonAPath == Handled /\ last.msg.question[1].qtype # "A"

AliasFailurePath ==
    Handled /\ last.alias.err \notin {NoErr, NotCalled}

EndpointFailurePath ==
    Handled /\ last.target.err \notin {NoErr, NotCalled}

FormatFailurePath ==
    /\ Handled /\ last.msg.question[1].qtype = "A"
    /\ last.alias.err \in {NoErr, NotCalled}
    /\ last.target.err = NotCalled

SuccessPath == Handled /\ last.target.err = NoErr

FailurePath == AliasFailurePath \/ FormatFailurePath \/ EndpointFailurePath

\* C1: every path of the handler on a message that carries a question (non-A
\* type, alias failure, format failure, endpoint failure, success) ends having
\* written exactly one reply, and that reply has the authoritative flag set.
C1_OneAuthoritativeReply ==
    Handled =>
        /\ NonAPath \/ AliasFailurePath \/ FormatFailurePath
              \/ EndpointFailurePath \/ SuccessPath
        /\ ~last.panicked
        /\ Len(last.replies) = 1
        /\ last.replies[1].authoritative
        /\ last.replies[1].response
        /\ last.replies[1].question = last.msg.question

\* a query that failed at the endpoint lookup was still answered once
C1_Witness ==
    /\ EndpointFailurePath
    /\ Len(last.replies) = 1
    /\ last.replies[1].authoritative

\* the ready IPv4 addresses of service id in the cluster: every address of
\* every endpoint that is ready, serving and not terminating (absent
\* conditions count as ready) in the IPv4 slices of the service
ReadyAddressCount(id, ip) ==
    LET mine == { i \in DOMAIN slices :
                    /\ slices[i].ns = SvcNamespace(id)
                    /\ slices[i].svc = SvcName(id)
                    /\ slices[i].addressType = "IPv4" }
        places == UNION { UNION { { << k, e, a >> :
                                      a \in DOMAIN slices[k].endpoints[e].addresses } :
                                  e \in DOMAIN slices[k].endpoints } :
                          k \in mine }
        hits == { pos \in places :
                    LET e == slices[pos[1]].endpoints[pos[2]]
                    IN  /\ e.ready \in {NilPtr, "true"}
                        /\ e.serving \in {NilPtr, "true"}
                        /\ e.terminating \in {NilPtr, "false"}
                        /\ ParseIP(e.addresses[pos[3]]) = ip }
    IN  Cardinality(hits)

IPs == { e[2] : e \in IPv4Table }

HasReadyAddresses(id) == \E ip \in IPs : ReadyAddressCount(id, ip) > 0

AnswerCountOf(answers, ip) ==
    Cardinality({ i \in DOMAIN answers : answers[i].a = ip })

\* an A query for the name of service id under the domain
DirectQuery(id) ==
    /\ Handled
    /\ last.msg.question[1] = Question(Fqdn(id) \o << "." >>, "A")

\* C2: an A query for S.N.<domain>., where S has ready IPv4 addresses and the
\* endpoint listing returned, is answered with one A record per ready address
\* (the same multiset), each named by the query name, of class INET and with
\* the configured TTL.
C2_DirectAnswers ==
    \A id \in SvcIds :
        (DirectQuery(id) /\ HasReadyAddresses(id) /\ last.target.err # ErrList) =>
            /\ Len(last.replies) = 1
            /\ LET answers == last.replies[1].answer
               IN  /\ \A ip \in IPs :
                         AnswerCountOf(answers, ip) = ReadyAddressCount(id, ip)
                   /\ \A i \in DOMAIN answers :
                         /\ answers[i].a \in IPs
                         /\ answers[i].name = last.msg.question[1].name
                         /\ answers[i].rrtype = "A"
                         /\ answers[i].class = "INET"
                         /\ answers[i].ttl = TTL

\* service mq answered from two subsets that hold the same address
C2_Witness ==
    /\ DirectQuery("mq")
    /\ last.target.err = NoErr
    /\ Len(last.replies[1].answer) = 2
    /\ ReadyAddressCount("mq", << 10, 244, 1, 103 >>) = 2

\* the answer the handler gives to an A query for name, as address counts
AnswerOf(name, listOk) ==
    LET log == handleDNSRequest(Msg(<< Question(name, "A") >>), listOk, NoShuffle)
    IN  IF Len(log.replies) = 1 THEN log.replies[1].answer ELSE << >>

SameAnswers(a, b) ==
    /\ Len(a) = Len(b)
    /\ \A ip \in IPs : AnswerCountOf(a, ip) = AnswerCountOf(b, ip)

\* the name a client sends to ask for host h
QueryName(h) == IF HasSuffix(h, << "." >>) THEN h ELSE h \o << "." >>

\* the controller has just processed an add/update event of a managed
\* service whose annotation binds an alias
AliasBound ==
    /\ last.kind = "event"
    /\ last.obj.isService
    /\ last.obj.svc.type = "LoadBalancer"
    /\ last.obj.svc.class = LBClass
    /\ last.obj.svc.annot.exists
    /\ canonicalHostname(last.obj.svc.annot.val) # << >>

\* C3 as stated: once the add/update event of a managed service with alias h
\* has been processed, an A query for h gets the same multiset of addresses
\* as the direct query for the service, whatever h is.
C3_AnyAliasSameAsDirect ==
    AliasBound =>
        \A listOk \in BOOLEAN :
            SameAnswers(AnswerOf(QueryName(last.obj.svc.annot.val), listOk),
                        AnswerOf(LbDNS(last.obj.svc) \o << "." >>, listOk))

\* C3: once the add/update event of a managed service with alias h has been
\* processed, an A query for h gets the same multiset of addresses as the
\* direct query for the service, provided h does not itself end with
\* .<domain> (such a name is read as a service name and never looked up).
C3_AliasSameAsDirect ==
    (AliasBound /\ IsExternal(TrimSuffix(QueryName(last.obj.svc.annot.val), << "." >>))) =>
        \A listOk \in BOOLEAN :
            SameAnswers(AnswerOf(QueryName(last.obj.svc.annot.val), listOk),
                        AnswerOf(LbDNS(last.obj.svc) \o << "." >>, listOk))

\* the alias MQ.io. was bound and resolves to the two addresses of mq
C3_Witness ==
    /\ AliasBound
    /\ last.obj.svc.annot.val = << "M", "Q", ".", "i", "o", "." >>
    /\ Len(AnswerOf(<< "M", "Q", ".", "i", "o", "." >>, TRUE)) = 2
    /\ Len(AnswerOf(Fqdn("mq") \o << "." >>, TRUE)) = 2

\* ingress k declares the queried host in rule r and its first status entry
\* names service id under the domain
IngressDeclares(k, id) ==
    /\ Handled /\ last.msg.question[1].qtype = "A"
    /\ \E r \in DOMAIN listers.ingresses[k].rules :
          QueryName(listers.ingresses[k].rules[r]) = last.msg.question[1].name
    /\ Len(listers.ingresses[k].status) > 0
    /\ listers.ingresses[k].status[1].hostname = Fqdn(id)

\* the reply carries the ready addresses of service id under the query name
AnsweredWith(id) ==
    /\ Len(last.replies) = 1
    /\ LET answers == last.replies[1].answer
       IN  /\ \A ip \in IPs :
                 AnswerCountOf(answers, ip) = ReadyAddressCount(id, ip)
           /\ \A i \in DOMAIN answers :
                 /\ answers[i].a \in IPs
                 /\ answers[i].name = last.msg.question[1].name

\* no ingress before k in lister order has a rule matching the queried host
\* together with a non-empty first status entry
FirstAnswering(k) ==
    \A j \in 1 .. (k - 1) :
        LET ing == listers.ingresses[j]
        IN  \/ \A r \in DOMAIN ing.rules :
                  ~hostnameMatches(ing.rules[r], last.msg.question[1].name)
            \/ Len(ing.status) = 0
            \/ ing.status[1].hostname = << >> /\ ing.status[1].ip = << >>

\* C4 as stated: an A query for a host declared in an ingress rule, where
\* that ingress's first status entry has hostname S.N.<domain>, is answered
\* with the ready addresses of S, the records named by the queried host.
C4_AnyIngressHost ==
    \A k \in DOMAIN listers.ingresses : \A id \in SvcIds :
        (IngressDeclares(k, id) /\ last.target.err # ErrList) => AnsweredWith(id)

\* C4: the same, for a host that is not under .<domain>, has no alias
\* binding in the cache, and whose ingress is the first in lister order with
\* a matching rule and a non-empty first status entry.
C4_IngressHost ==
    \A k \in DOMAIN listers.ingresses : \A id \in SvcIds :
        ( /\ IngressDeclares(k, id)
          /\ last.target.err # ErrList
          /\ IsExternal(TrimSuffix(last.msg.question[1].name, << "." >>))
          /\ canonicalHostname(last.msg.question[1].name) \notin DOMAIN serviceMap
          /\ FirstAnswering(k) )
        => AnsweredWith(id)

\* p.io, declared by the only ingress, answered with the address of web
C4_Witness ==
    /\ Len(listers.ingresses) = 1
    /\ IngressDeclares(1, "web")
    /\ last.msg.question[1].name = << "p", ".", "i", "o", "." >>
    /\ last.steps = << "alias", "split", "endpoints", "build", "shuffle", "reply" >>
    /\ Len(last.replies[1].answer) = 1
    /\ last.replies[1].answer[1].a = << 10, 244, 2, 7 >>

\* C5: a query that fails at the alias lookup, at the name format or at the
\* endpoint lookup is answered once, with no answer record, the authoritative
\* flag and no error code, and no step of the handler runs after the failure.
C5_FailureReply ==
    FailurePath =>
        /\ Len(last.replies) = 1
        /\ last.replies[1].answer = << >>
        /\ last.replies[1].authoritative
        /\ last.replies[1].rcode = "NOERROR"
        /\ AliasFailurePath =>
              /\ last.steps = << "alias", "reply" >>
              /\ last.target = NoTarget
        /\ FormatFailurePath =>
              last.steps \in { << "split", "reply" >>,
                               << "alias", "split", "reply" >> }
        /\ EndpointFailurePath =>
              last.steps \in { << "split", "endpoints", "reply" >>,
                               << "alias", "split", "endpoints", "reply" >> }

\* the name mq.minilb. has no namespace part: format failure
C5_Witness ==
    /\ FormatFailurePath
    /\ last.msg.question[1].name = << "m", "q", ".", "m", "i", "n", "i", "l", "b", "." >>
    /\ last.replies[1].answer = << >>

\* C6: a query whose type is not A gets one authoritative reply without
\* answers, and neither the alias lookup nor the endpoint lookup is made.
C6_NonAQuery ==
    NonAPath =>
        /\ Len(last.replies) = 1
        /\ last.replies[1].answer = << >>
        /\ last.replies[1].authoritative
        /\ last.steps = << "reply" >>
        /\ last.alias = NoAlias
        /\ last.target = NoTarget

\* an AAAA query for a service that an A query would have found addresses for
C6_Witness ==
    /\ NonAPath
    /\ last.msg.question[1].name = Fqdn("mq") \o << "." >>
    /\ HasReadyAddresses("mq")
    /\ last.replies[1].answer = << >>

\* C7 as stated: the handler completes on every inbound message, whatever
\* its question section, without panicking.
C7_NeverPanics == last.kind = "query" => ~last.panicked /\ Len(last.replies) = 1

\* the lookup was made for the queried name
AliasCalled == Handled /\ last.alias.err # NotCalled

QueriedHost == canonicalHostname(TrimSuffix(last.msg.question[1].name, << "." >>))

\* what each stage finds for the queried host, in the order cache, ingress,
\* HTTP route, TLS route, GRPC route
StageAddrs ==
    << IF QueriedHost \in DOMAIN serviceMap THEN serviceMap[QueriedHost] ELSE << >>,
       resolveIngressHostname(QueriedHost).addr,
       resolveHTTPRouteHostname(QueriedHost).addr,
       resolveTLSRouteHostname(QueriedHost).addr,
       resolveGRPCRouteHostname(QueriedHost).addr >>

FirstStage == FirstIndex({k \in DOMAIN StageAddrs : StageAddrs[k] # << >>})

StagesDecide ==
    IF FirstStage = 0
    THEN last.alias = Res(<< >>, ErrHostnameNotFound)
    ELSE last.alias = Res(StageAddrs[FirstStage], NoErr)

Unmanaged(obj) ==
    IF ~obj.isService THEN TRUE
    ELSE \/ obj.svc.type # "LoadBalancer"
         \/ obj.svc.class = NilPtr
         \/ obj.svc.class # "minilb"

\* C9: an add/update event whose object is not a Service, or whose type is
\* not LoadBalancer, or whose class is unset or not the controller's, is a
\* complete no-op: no status write, no binding recorded or changed, and the
\* object left as it was delivered.
C9_UnmanagedNoOp ==
    [][ (last'.kind = "event" /\ Unmanaged(last'.obj)) =>
            /\ last'.writes = << >>
            /\ last'.err = NoErr
            /\ last'.svc = last'.obj.svc
            /\ serviceMap' = serviceMap ]_vars

\* a LoadBalancer service of another class, with an alias annotation and a
\* status a managed service would have had rewritten, was delivered
C9_Witness ==
    /\ last.kind = "event"
    /\ last.obj.isService
    /\ last.obj.svc.type = "LoadBalancer"
    /\ last.obj.svc.class = "other"
    /\ last.obj.svc.annot.exists
    /\ last.obj.svc.status = << >>
    /\ canonicalHostname(last.obj.svc.annot.val) \notin DOMAIN serviceMap
    /\ last.writes = << >>

\* the event was for a service the controller manages
ManagedEvent ==
    /\ last.kind = "event"
    /\ ~Unmanaged(last.obj)

\* the one status the controller wants a managed service to have
WantedStatus(svc) ==
    << [ip |-> << >>,
        hostname |-> svc.name \o << "." >> \o svc.namespace \o << "." >> \o Domain] >>

\* C10: for a managed service the controller issues a status write exactly
\* when the delivered status is not the single entry with empty IP and
\* hostname name.namespace.domain; it issues at most one write per event, and
\* the status it writes is exactly that entry.
C10_StatusWrite ==
    ManagedEvent =>
        /\ Len(last.writes) = 1 <=> last.obj.svc.status # WantedStatus(last.obj.svc)
        /\ Len(last.writes) <= 1
        /\ \A i \in DOMAIN last.writes : last.writes[i] = WantedStatus(last.obj.svc)
        /\ last.writes = << >> => last.svc = last.obj.svc

\* the delivered status had the right hostname and an IP: it was rewritten
C10_Witness ==
    /\ ManagedEvent
    /\ Len(last.obj.svc.status) = 1
    /\ last.obj.svc.status[1].hostname = Fqdn("mq")
    /\ last.obj.svc.status[1].ip # << >>
    /\ last.writes = << WantedStatus(last.obj.svc) >>

\* the service of the model that an object delivered to the handler is
SvcIdOf(svc) == CHOOSE id \in SvcIds : SvcName(id) = svc.name

\* the handler runs again for service id with nothing changed from outside:
\* the update event of its own accepted write, or a resync
InvokedAgain(id) ==
    \E writeOk \in BOOLEAN : WriteObserved(id, writeOk) \/ Resync(id, writeOk)

\* C11: when the handler runs twice in a row for the same managed service
\* with no change from outside in between, the second run issues no write, and
\* the two runs together issue one write if the status first delivered was not
\* the wanted one and none otherwise; so the update event that follows the
\* handler's own accepted write causes no further write.
C11_OneWriteForTwoRuns ==
    [][ \A id \in SvcIds :
            (ManagedEvent /\ last.obj.svc.name = SvcName(id) /\ InvokedAgain(id)) =>
                /\ last'.writes = << >>
                /\ Len(last.writes) + Len(last'.writes) =
                      IF last.obj.svc.status # WantedStatus(last.obj.svc)
                      THEN 1 ELSE 0 ]_vars

\* the update event of the handler's own write was delivered: the object
\* carries the wanted status, the cache is level with the server, no write
C11_Witness ==
    /\ ManagedEvent
    /\ last.obj.svc = api[SvcIdOf(last.obj.svc)]
    /\ last.obj.svc.status = WantedStatus(last.obj.svc)
    /\ ~store[SvcIdOf(last.obj.svc)].stale
    /\ last.writes = << >>

\* C12 as stated: after a failed status write, every later resync or change
\* event for the managed service attempts the write again while the status
\* the cluster holds is still not the wanted one.
C12_EveryEventRetries ==
    (ManagedEvent /\ api[SvcIdOf(last.obj.svc)].present
                  /\ api[SvcIdOf(last.obj.svc)].status # WantedStatus(last.obj.svc))
        => last.writes # << >>

\* C13: for a managed service that carries the alias annotation, every run
\* of the handler leaves canonical(alias) bound to name.namespace.domain,
\* whether the status write succeeded, failed or was not needed, and changes
\* no other binding; a failed write only shows as the logged error; an alias
\* whose canonical form is empty leaves the cache as it was.
C13_AliasRecorded ==
    [][ (last'.kind = "event" /\ ~Unmanaged(last'.obj)
                              /\ last'.obj.svc.annot.exists) =>
            LET key   == canonicalHostname(last'.obj.svc.annot.val)
                value == WantedStatus(last'.obj.svc)[1].hostname
            IN  /\ last'.err \in {NoErr, ErrUpdate}
                /\ last'.err = ErrUpdate => Len(last'.writes) = 1
                /\ IF key = << >>
                   THEN serviceMap' = serviceMap
                   ELSE /\ DOMAIN serviceMap' = DOMAIN serviceMap \cup {key}
                        /\ serviceMap'[key] = value
                        /\ \A k \in DOMAIN serviceMap \ {key} :
                              serviceMap'[k] = serviceMap[k] ]_vars

\* the status write failed and the alias of the service is bound all the same
C13_Witness ==
    /\ ManagedEvent
    /\ last.obj.svc.annot.exists
    /\ last.err = ErrUpdate
    /\ canonicalHostname(last.obj.svc.annot.val) \in DOMAIN serviceMap
    /\ serviceMap[canonicalHostname(last.obj.svc.annot.val)] = Fqdn("mq")

\* ------------------------------------------------------------------------
\* Properties of the hostname functions
\* ------------------------------------------------------------------------

\* the forms of a character that differ in letter case only
CaseForms(c) ==
    {c, ToLowerChar(c)} \cup {u \in DOMAIN LowerOf : LowerOf[u] = c}

\* the strings that differ from h in letter case only
CaseVariants(h) ==
    { v \in [DOMAIN h -> UNION { CaseForms(h[i]) : i \in DOMAIN h }] :
        \A i \in DOMAIN h : v[i] \in CaseForms(h[i]) }

\* h, h with one dot added at the end, h with its final dot removed
DotVariants(h) ==
    {h, h \o << "." >>}
        \cup (IF HasSuffix(h, << "." >>) THEN {SubSeq(h, 1, Len(h) - 1)} ELSE { })

\* the strings that differ from h only in letter case or in a trailing dot
Variants(h) == UNION { DotVariants(v) : v \in CaseVariants(h) }

\* C14 as stated: a binding recorded under hostname h is found by a lookup
\* of every variant of h that differs only in letter case or in a trailing dot.
C14_VariantsFound ==
    AliasBound =>
        \A v \in Variants(last.obj.svc.annot.val) :
            GetAddressForHostname(v) = Res(LbDNS(last.obj.svc), NoErr)

\* C15 as stated: canonicalHostname applied to its own result returns it
\* unchanged, for every string.
C15_Idempotent ==
    last.kind = "canonical" => canonicalHostname(last.out) = last.out

\* the string `tail` is the end of the string s, character by character
EndsWith(s, tail) ==
    /\ Len(tail) <= Len(s)
    /\ \A k \in 1 .. Len(tail) : s[Len(s) - Len(tail) + k] = tail[k]

\* the canonical candidate c is "*." followed by a non-empty remainder, and
\* the canonical query q is strictly longer than the remainder and ends with it
WildcardOver(c, q) ==
    /\ Len(c) > 2
    /\ c[1] = "*"
    /\ c[2] = "."
    /\ Len(q) > Len(c) - 2
    /\ EndsWith(q, [k \in 1 .. Len(c) - 2 |-> c[k + 2]])

MatchExpected(candidate, query) ==
    \E c \in {canonicalHostname(candidate)}, q \in {canonicalHostname(query)} :
        /\ c # << >>
        /\ q # << >>
        /\ c = q \/ WildcardOver(c, q)

\* C16: hostnameMatches(candidate, query) is true exactly when both canonical
\* forms are non-empty and either they are equal, or the canonical candidate
\* is "*." followed by a non-empty remainder and the canonical query is
\* strictly longer than the remainder and ends with it.  (*.example.com,
\* a.example.com), (*.example.com, a.b.example.com) and (example.com,
\* example.com) match; (*.example.com, example.com) and (example.com,
\* a.example.com) do not.
C16_MatchExactly ==
    last.kind = "match" =>
        /\ last.out = MatchExpected(last.candidate, last.query)
        /\ (last.candidate = << >> \/ last.query = << >>) => ~last.out
        /\ << last.candidate, last.query >> \in
               { << WildExampleCom, AExampleCom >>,
                 << WildExampleCom, ABExampleCom >>,
                 << ExampleCom, ExampleCom >> } => last.out
        /\ << last.candidate, last.query >> \in
               { << WildExampleCom, ExampleCom >>,
                 << ExampleCom, AExampleCom >> } => ~last.out

\* *.example.com has matched a.b.example.com
C16_Witness ==
    /\ last.kind = "match"
    /\ last.candidate = WildExampleCom
    /\ last.query = ABExampleCom
    /\ last.out

\* the canonical query is at least one character followed by "." and the
\* remainder of the canonical wildcard candidate (the weakest reading of
\* "one or more complete labels ending in a dot")
LabelsBefore(c, q) ==
    /\ Len(q) >= Len(c)
    /\ EndsWith(q, [k \in 1 .. Len(c) - 1 |-> c[k + 1]])

\* C17 as stated: a wildcard candidate *.S matches a query only if the query
\* is one or more complete labels followed by .S.
C17_LabelBoundary ==
    (/\ last.kind = "match"
     /\ last.out
     /\ HasPrefix(canonicalHostname(last.candidate), << "*", "." >>)
     /\ canonicalHostname(last.candidate) # canonicalHostname(last.query)) =>
        LabelsBefore(canonicalHostname(last.candidate),
                     canonicalHostname(last.query))

\* ------------------------------------------------------------------------
\* Properties of the endpoint lookup
\* ------------------------------------------------------------------------

AddressStrings ==
    { slices[k].endpoints[e].addresses[a] :
        << k, e, a >> \in
            UNION { UNION { { << k, e, a >> :
                                a \in DOMAIN slices[k].endpoints[e].addresses } :
                            e \in DOMAIN slices[k].endpoints } :
                    k \in DOMAIN slices } }

\* the places (slice, endpoint, address) of the address addr among the slices
\* of the service that the claim lets take part: an IPv4 slice, ready true or
\* unset, serving true or unset, terminating false or unset
ParticipatingPlaces(serviceName, namespace, addr) ==
    UNION { UNION { { << k, e, a >> :
                        a \in { a \in DOMAIN slices[k].endpoints[e].addresses :
                                  slices[k].endpoints[e].addresses[a] = addr } } :
                    e \in { e \in DOMAIN slices[k].endpoints :
                              /\ slices[k].endpoints[e].ready \in {NilPtr, "true"}
                              /\ slices[k].endpoints[e].serving \in {NilPtr, "true"}
                              /\ slices[k].endpoints[e].terminating
                                    \in {NilPtr, "false"} } } :
            k \in { k \in DOMAIN slices :
                      /\ slices[k].svc = serviceName
                      /\ slices[k].ns = namespace
                      /\ slices[k].addressType = "IPv4" } }

\* the places (subset, address) of the address addr in a returned Endpoints
ReturnedPlaces(subsets, addr) ==
    UNION { { << i, a >> : a \in { a \in DOMAIN subsets[i].addresses :
                                     subsets[i].addresses[a] = addr } } :
            i \in DOMAIN subsets }

Listed == last.kind = "endpoints" /\ last.listOk

\* C18: GetEndpoints returns an address of an endpoint exactly when the
\* slice is of type IPv4, and the endpoint's ready is true or unset, its
\* serving is true or unset and its terminating is false or unset: each
\* address is returned as many times as such endpoints hold it.
C18_ParticipatingAddresses ==
    Listed =>
        \A addr \in AddressStrings :
            Cardinality(ReturnedPlaces(last.out.subsets, addr)) =
                Cardinality(ParticipatingPlaces(last.serviceName,
                                                last.namespace, addr))

\* an endpoint without conditions is returned with both its addresses while
\* the terminating endpoint of the next slice, ready = true, is left out
C18_Witness ==
    /\ Listed
    /\ last.serviceName = SvcName("mq")
    /\ Len(slices) = 2
    /\ slices[1] = Slice("mq", "IPv4",
                         << Endpoint(<< "10.244.19.168", "10.244.1.103" >>,
                                     NilPtr, NilPtr, NilPtr) >>)
    /\ slices[2] = Slice("mq", "IPv4",
                         << Endpoint(<< "10.244.2.7" >>, "true", NilPtr, "true") >>)
    /\ last.out = [subsets |-> << [addresses |-> << "10.244.19.168",
                                                    "10.244.1.103" >>] >>,
                   err |-> NoErr]

\* C19: GetEndpoints never succeeds with zero addresses: a successful result
\* has at least one subset and every subset has at least one address; when
\* the listing returned and no IPv4 slice of the service has a participating
\* endpoint the result is the error "no ready IPv4 endpoints found"; so the
\* reply to an A question carries answers exactly when the endpoint lookup
\* succeeded.
C19_NoEmptySuccess ==
    /\ last.kind = "endpoints" =>
          /\ last.out.err = NoErr =>
                /\ Len(last.out.subsets) > 0
                /\ \A i \in DOMAIN last.out.subsets :
                      Len(last.out.subsets[i].addresses) > 0
          /\ (last.listOk /\ \A addr \in AddressStrings :
                                ParticipatingPlaces(last.serviceName,
                                                    last.namespace, addr) = { }) =>
                last.out.err = ErrNoReady
          /\ last.out.err # NoErr => last.out.subsets = << >>
    /\ (Handled /\ last.msg.question[1].qtype = "A") =>
          /\ Len(last.replies) = 1
          /\ last.replies[1].answer # << >> <=> last.target.err = NoErr

\* the IPv4 slice of service mq holds only an endpoint that is not ready and
\* its other slice is of type IPv6: the lookup fails and the reply to
\* mq.au.<domain>. carries no answer
C19_Witness ==
    /\ Handled
    /\ last.msg.question[1].name = Fqdn("mq") \o << "." >>
    /\ slices = << Slice("mq", "IPv4",
                         << Endpoint(<< "10.244.19.168" >>,
                                     "false", NilPtr, NilPtr) >>),
                   Slice("mq", "IPv6",
                         << Endpoint(<< "fd00::1" >>, "true", NilPtr, NilPtr) >>) >>
    /\ last.target.err = ErrNoReady
    /\ last.replies[1].answer = << >>

\* ------------------------------------------------------------------------
\* Properties of the hostname cache
\* ------------------------------------------------------------------------

\* the step was an event of a managed service that carries an alias whose
\* canonical form is key
AliasEventFor(key) ==
    /\ last'.kind = "event"
    /\ ~Unmanaged(last'.obj)
    /\ last'.obj.svc.annot.exists
    /\ canonicalHostname(last'.obj.svc.annot.val) = key

\* C20: over every sequence of service events and queries no binding is
\* removed: the key set of the cache only grows, and a key is added or its
\* value changed only by an event of a managed service whose alias has that
\* canonical key.  Removing or changing the annotation, changing the class
\* or type, or deleting the service leaves the earlier binding in place.
C20_BindingsStay ==
    [][ /\ DOMAIN serviceMap \subseteq DOMAIN serviceMap'
        /\ \A k \in DOMAIN serviceMap :
              serviceMap'[k] # serviceMap[k] => AliasEventFor(k)
        /\ \A k \in DOMAIN serviceMap' \ DOMAIN serviceMap :
              AliasEventFor(k) ]_vars

\* service mq was given one alias, then another, then deleted: both aliases
\* are still bound to its name
C20_Witness ==
    /\ ~api["mq"].present
    /\ last.kind = "env"
    /\ << "m", "q", ".", "i", "o" >> \in DOMAIN serviceMap
    /\ << "x", ".", "y", ".", "m", "i", "n", "i", "l", "b" >> \in DOMAIN serviceMap
    /\ serviceMap[<< "m", "q", ".", "i", "o" >>] = Fqdn("mq")
    /\ serviceMap[<< "x", ".", "y", ".", "m", "i", "n", "i", "l", "b" >>] = Fqdn("mq")

\* ------------------------------------------------------------------------
\* Properties of the query handler: what it reads and what it leaves alone
\* ------------------------------------------------------------------------

\* the requests to the API server a run of the handler made: the step
\* "endpoints" is k8s.GetEndpoints, which sends EndpointSlices(namespace).List
ApiRequests ==
    { i \in DOMAIN last.steps : last.steps[i] = "endpoints" }

\* C21 as stated: handling a DNS query never issues a request to the
\* cluster API; the handler reads local caches and lister snapshots only.
C21_NoApiRequest ==
    last.kind = "query" => ApiRequests = { }

\* ------------------------------------------------------------------------
\* Properties of the lock around the cache
\* ------------------------------------------------------------------------

\* the goroutine cannot take its next step
Blocked(g) ==
    \/ goroutines[g].pc = "rlock" /\ ~CanRLock(mutex)
    \/ goroutines[g].pc = "lockwait" /\ ~CanLock(mutex)

Running == { g \in DOMAIN goroutines : goroutines[g].pc # "idle" }

\* C22: the cache map is read and written under the lock only.  The event
\* handler holds the write lock exactly around the map assignment, so not
\* during its API call; a lookup holds a read lock exactly around the map
\* read, so not while it reads the listers; a handler that has returned
\* holds nothing; some running handler can always take a step (no deadlock);
\* and what a lookup reads is the binding the map holds, never a value torn
\* by a write in progress.
C22_LockDiscipline ==
    /\ mutex.writer = Informer <=>
          goroutines[Informer].pc \in {"assign", "assigning", "unlock"}
    /\ mutex.writer \in {NoHolder, Informer}
    /\ \A q \in Queries :
          /\ q \in mutex.readers <=> goroutines[q].pc \in {"read", "runlock"}
          /\ goroutines[q].pc = "read" =>
                goroutines[Informer].pc # "assigning"
          /\ goroutines[q].pc = "runlock" =>
                goroutines[q].seen = MapGet(serviceMap, goroutines[q].canonical)
    /\ mutex.readers \subseteq Queries
    /\ mutex.writer # NoHolder => mutex.readers = { }
    /\ Running # { } => \E g \in Running : ~Blocked(g)
    /\ last.kind = "lookup" => last.out.addr # Torn.svcHost

\* a lookup waits in RLock while the event handler is writing the map
C22_Witness ==
    /\ goroutines[Informer].pc = "assigning"
    /\ goroutines["q1"].pc = "rlock"
    /\ goroutines["q2"].pc = "rlock"
    /\ Blocked("q1")

\* ------------------------------------------------------------------------
\* Properties of the lookup stages
\* ------------------------------------------------------------------------

\* the lookup returned the cache binding of the queried host, or else what
\* the ingress stage finds for it, or else "hostname not found"
CacheOrIngressDecide ==
    IF QueriedHost \in DOMAIN serviceMap
    THEN last.alias = Res(serviceMap[QueriedHost], NoErr)
    ELSE IF resolveIngressHostname(QueriedHost).addr # << >>
    THEN last.alias = Res(resolveIngressHostname(QueriedHost).addr, NoErr)
    ELSE last.alias = Res(<< >>, ErrHostnameNotFound)

\* the Gateway-API listers are nil and the handler has called the lookup
NilListersLookup ==
    /\ AliasCalled
    /\ listers.httpNil /\ listers.tlsNil /\ listers.grpcNil /\ listers.gatewayNil

ShuffleRecords ==
    { [name |-> Fqdn("mq") \o << "." >>, rrtype |-> "A", class |-> "INET",
       ttl |-> Uint32(TTL), a |-> e[2]] : e \in IPv4Table }

\* the answer lists handed to shuffleDNSAnswers
AnswerLists == UNION { [1 .. n -> ShuffleRecords] : n \in 0 .. MaxAnswers }

InitShuffle ==
    /\ api = [id \in SvcIds |-> Absent]
    /\ store = [id \in SvcIds |-> NotCached]
    /\ serviceMap = [k \in {} |-> << >>]
    /\ mutex = FreeMutex
    /\ goroutines = AllIdle
    /\ listers = EmptyListers(TRUE)
    /\ slices = << >>
    /\ \E answers \in AnswerLists : last = [kind |-> "answers", answers |-> answers]

\* shuffleDNSAnswers(answers) with the random numbers js
Shuffle(js) ==
    /\ last.kind = "answers"
    /\ last' = [kind |-> "shuffle", answers |-> last.answers, js |-> js,
                out |-> shuffleDNSAnswers(last.answers, js)]
    /\ UNCHANGED << api, store, serviceMap, listers, slices, mutex, goroutines >>

NextShuffle ==
    \E js \in RandomDraws(Len(last.answers)) : Shuffle(js)

SpecShuffle == InitShuffle /\ [][NextShuffle]_vars

\* ------------------------------------------------------------------------
\* Properties of the shuffle
\* ------------------------------------------------------------------------

Occurrences(seq, x) == Cardinality({ i \in DOMAIN seq : seq[i] = x })

\* C24: shuffleDNSAnswers only reorders: for every answer list and every
\* sequence of random numbers the list after the shuffle has the same length
\* and holds every record as many times as before.
C24_ShufflePermutes ==
    last.kind = "shuffle" =>
        /\ Len(last.out) = Len(last.answers)
        /\ \A rec \in ShuffleRecords :
              Occurrences(last.out, rec) = Occurrences(last.answers, rec)

\* a list with a record twice was reordered
C24_Witness ==
    /\ last.kind = "shuffle"
    /\ Len(last.answers) = 3
    /\ last.answers[1] = last.answers[2]
    /\ last.answers[3] # last.answers[1]
    /\ last.out[1] = last.answers[3]

\* ------------------------------------------------------------------------
\* Properties of the configuration
\* ------------------------------------------------------------------------

\* C25 as stated: with the controller flag at its default, false, the
\* service controller does not run: no service status write is ever issued.
C25_NoWriteWithoutFlag ==
    ~Controller => (last.kind = "event" => last.writes = << >>)

\* C26: handling a DNS query changes no shared state: the cache map, every
\* service object (at the API server and in the informer's store), the
\* endpoint slices and every lister snapshot are the same before and after
\* the query, whatever its outcome.
C26_QueryChangesNothing ==
    [][ last'.kind = "query" =>
            /\ serviceMap' = serviceMap
            /\ api' = api
            /\ store' = store
            /\ listers' = listers
            /\ slices' = slices ]_vars

\* a query for an alias was answered with addresses while the cache, the
\* store and the ingress lister held objects
C26_Witness ==
    /\ SuccessPath
    /\ last.alias.err = NoErr
    /\ last.replies[1].answer # << >>
    /\ DOMAIN serviceMap # { }
    /\ store["mq"].present
    /\ listers.ingresses # << >>

\* C27 as stated: whenever the lookup succeeds for a query name outside the
\* domain, the name it returns, which is carried into the split, ends with
\* .<domain>, so that the service and namespace given to GetEndpoints come
\* from a name of the form service.namespace.<domain>.
C27_AliasIsInternalName ==
    (AliasCalled /\ last.alias.err = NoErr) =>
        HasSuffix(last.alias.addr, Suffix)

\* the query name without its final dot
AskedName == TrimSuffix(last.msg.question[1].name, << "." >>)

\* an A question for a name under the domain: no alias lookup takes place
InternalQuery ==
    /\ Handled
    /\ last.msg.question[1].qtype = "A"
    /\ HasSuffix(AskedName, Suffix)

\* the name that is left when the domain suffix is stripped
Remainder == SubSeq(AskedName, 1, Len(AskedName) - Len(Suffix))

Dots(s) == Cardinality({ i \in DOMAIN s : s[i] = "." })

\* C28 as stated: the endpoint lookup is made only when the name left after
\* stripping the domain suffix has exactly two components; a remainder
\* without a dot or with more than two labels is a format failure: one
\* authoritative reply without answers and no endpoint lookup.
C28_ExactlyTwoComponents ==
    (InternalQuery /\ Dots(Remainder) # 1) =>
        /\ last.target = NoTarget
        /\ ApiRequests = { }
        /\ Len(last.replies) = 1
        /\ last.replies[1].answer = << >>
        /\ last.replies[1].authoritative

\* ------------------------------------------------------------------------
\* The ingress stage on every short list of ingresses
\* ------------------------------------------------------------------------

\* the hosts an ingress rule can declare
RuleHosts ==
    { << "p", ".", "i", "o" >>, << "*", ".", "i", "o" >>,
      << "q", ".", "i", "o" >> }

\* the rules of an ingress: none, one or two
RuleLists ==
    { << >> } \cup { << a >> : a \in RuleHosts }
              \cup { << a, b >> : a \in RuleHosts, b \in RuleHosts }

IngressIP == << "1", "0", ".", "0", ".", "0", ".", "9" >>

\* ingress.Status.LoadBalancer.Ingress: no entry; a first entry with neither
\* field, with a hostname, with an IP, with both; an empty first entry
\* followed by a full one
IngressStatuses ==
    { << >>,
      << LbEntry(<< >>, << >>) >>,
      << LbEntry(<< >>, Fqdn("web")) >>,
      << LbEntry(IngressIP, << >>) >>,
      << LbEntry(IngressIP, Fqdn("mq")) >>,
      << LbEntry(<< >>, << >>), LbEntry(IngressIP, Fqdn("mq")) >> }

IngressKinds ==
    { Ingress(rules, status) : rules \in RuleLists, status \in IngressStatuses }

\* what ingressLister.List returns: none, one or two ingresses
IngressLists ==
    { << >> } \cup { << a >> : a \in IngressKinds }
              \cup { << a, b >> : a \in IngressKinds, b \in IngressKinds }

InitIngress ==
    /\ api = [id \in SvcIds |-> Absent]
    /\ store = [id \in SvcIds |-> NotCached]
    /\ serviceMap = [k \in {} |-> << >>]
    /\ mutex = FreeMutex
    /\ goroutines = AllIdle
    /\ \E ingresses \in IngressLists :
          listers = [EmptyListers(TRUE) EXCEPT !.ingresses = ingresses]
    /\ slices = << >>
    /\ last = [kind |-> "init"]

\* resolveIngressHostname(hostname), called with a canonical hostname
ResolveIngress(hostname) ==
    /\ last' = [kind |-> "ingress", hostname |-> hostname,
                out |-> resolveIngressHostname(hostname)]
    /\ UNCHANGED << api, store, serviceMap, listers, slices, mutex, goroutines >>

NextIngress ==
    \E hostname \in { << "p", ".", "i", "o" >>, << "i", "o" >> } :
        ResolveIngress(hostname)

SpecIngress == InitIngress /\ [][NextIngress]_vars

\* ------------------------------------------------------------------------
\* Properties of the ingress stage
\* ------------------------------------------------------------------------

\* the rules, by ingress and position, that match the hostname and whose
\* ingress has a first status entry with a hostname or an IP
QualifyingRules(hostname) ==
    { kr \in UNION { { << k, r >> : r \in DOMAIN listers.ingresses[k].rules } :
                     k \in DOMAIN listers.ingresses } :
        /\ hostnameMatches(listers.ingresses[kr[1]].rules[kr[2]], hostname)
        /\ Len(listers.ingresses[kr[1]].status) > 0
        /\ \/ listers.ingresses[kr[1]].status[1].hostname # << >>
           \/ listers.ingresses[kr[1]].status[1].ip # << >> }

\* kr comes first in the order of the scan
FirstInScan(kr, rules) ==
    \A other \in rules :
        \/ kr[1] < other[1]
        \/ kr[1] = other[1] /\ kr[2] <= other[2]

\* C29: the ingress stage returns, for the first rule in scan order that
\* matches the hostname and whose ingress has a first status entry that is
\* not empty, that entry's hostname if it has one, else its IP; ingresses
\* without status entry, or whose first entry has neither field, are passed
\* over; the stage yields no match, and no error, if no rule qualifies.
C29_IngressScan ==
    last.kind = "ingress" =>
        /\ last.out.err = NoErr
        /\ IF QualifyingRules(last.hostname) = { }
           THEN last.out.addr = << >>
           ELSE \E kr \in QualifyingRules(last.hostname) :
                   /\ FirstInScan(kr, QualifyingRules(last.hostname))
                   /\ last.out.addr =
                         IF listers.ingresses[kr[1]].status[1].hostname # << >>
                         THEN listers.ingresses[kr[1]].status[1].hostname
                         ELSE listers.ingresses[kr[1]].status[1].ip

\* the first ingress matches by wildcard but its first status entry is
\* empty; the second matches by its second rule and has an IP only
C29_Witness ==
    /\ last.kind = "ingress"
    /\ last.hostname = << "p", ".", "i", "o" >>
    /\ listers.ingresses =
          << Ingress(<< << "*", ".", "i", "o" >> >>,
                     << LbEntry(<< >>, << >>), LbEntry(IngressIP, Fqdn("mq")) >>),
             Ingress(<< << "q", ".", "i", "o" >>, << "p", ".", "i", "o" >> >>,
                     << LbEntry(IngressIP, << >>) >>) >>
    /\ last.out = Res(IngressIP, NoErr)

\* ------------------------------------------------------------------------
\* The route stages on every short list of routes
\* ------------------------------------------------------------------------

\* route.Spec.Hostnames
HostnameLists ==
    { << >>, << << "h", ".", "i", "o" >> >>, << << "*", ".", "i", "o" >> >>,
      << << "q", ".", "i", "o" >> >>,
      << << "q", ".", "i", "o" >>, << "H", ".", "i", "o" >> >> }

\* route.Spec.ParentRefs: none; a gateway with an address; a gateway without;
\* a gateway that does not exist; a parent that is no gateway; a gateway
\* without address followed by one with
ParentRefLists ==
    { << >>,
      << ParentRef(NilPtr, NilPtr, "gw1") >>,
      << ParentRef(NilPtr, NilPtr, "gw0") >>,
      << ParentRef(NilPtr, NilPtr, "none") >>,
      << ParentRef("Service", NilPtr, "gw1") >>,
      << ParentRef("Gateway", NilPtr, "gw0"), ParentRef("Gateway", "gwns", "gw1") >> }

RouteGateways ==
    { Gateway("gwns", "gw1", << Fqdn("mq") >>),
      Gateway("gwns", "gw0", << << >> >>),
      Gateway("gwns", "gw2", << Fqdn("web") >>) }

RouteKinds ==
    { Route("gwns", hostnames, parentRefs) :
        hostnames \in HostnameLists, parentRefs \in ParentRefLists }

\* the routes that can follow another in the list
NextRouteKinds ==
    { Route("gwns", << >>, << ParentRef(NilPtr, NilPtr, "gw1") >>),
      Route("gwns", << << "h", ".", "i", "o" >> >>,
            << ParentRef(NilPtr, NilPtr, "gw1") >>),
      Route("gwns", << << "h", ".", "i", "o" >> >>,
            << ParentRef(NilPtr, NilPtr, "gw0") >>),
      Route("gwns", << << "q", ".", "i", "o" >> >>,
            << ParentRef(NilPtr, NilPtr, "gw1") >>) }

\* what the lister of the stage under study returns: none, one or two routes
RouteLists ==
    { << >> } \cup { << a >> : a \in RouteKinds }
              \cup { << a, b >> : a \in RouteKinds, b \in NextRouteKinds }

\* what the listers of the other two stages return
OtherRouteLists ==
    { << >>,
      << Route("gwns", << << "h", ".", "i", "o" >> >>,
               << ParentRef(NilPtr, NilPtr, "gw2") >>) >>,
      << Route("gwns", << >>, << ParentRef(NilPtr, NilPtr, "gw2") >>) >> }

RouteWorlds ==
    UNION { { [EmptyListers(FALSE) EXCEPT !.gateways = RouteGateways,
                  !.httpRoutes = l, !.tlsRoutes = a, !.grpcRoutes = b],
              [EmptyListers(FALSE) EXCEPT !.gateways = RouteGateways,
                  !.httpRoutes = a, !.tlsRoutes = l, !.grpcRoutes = b],
              [EmptyListers(FALSE) EXCEPT !.gateways = RouteGateways,
                  !.httpRoutes = a, !.tlsRoutes = b, !.grpcRoutes = l] } :
            l \in RouteLists, a \in OtherRouteLists, b \in OtherRouteLists }

InitRoutes ==
    /\ api = [id \in SvcIds |-> Absent]
    /\ store = [id \in SvcIds |-> NotCached]
    /\ serviceMap = [k \in {} |-> << >>]
    /\ mutex = FreeMutex
    /\ goroutines = AllIdle
    /\ listers \in RouteWorlds
    /\ slices = << >>
    /\ last = [kind |-> "init"]

\* the three route stages and the whole chain after the cache, called with a
\* canonical hostname
ResolveRoutes(hostname) ==
    /\ last' = [kind |-> "routes", hostname |-> hostname,
                http |-> resolveHTTPRouteHostname(hostname),
                tls |-> resolveTLSRouteHostname(hostname),
                grpc |-> resolveGRPCRouteHostname(hostname),
                out |-> LookupStages(hostname)]
    /\ UNCHANGED << api, store, serviceMap, listers, slices, mutex, goroutines >>

NextRoutes ==
    \E hostname \in { << "h", ".", "i", "o" >>, << "z", ".", "c", "o", "m" >> } :
        ResolveRoutes(hostname)

SpecRoutes == InitRoutes /\ [][NextRoutes]_vars

\* ------------------------------------------------------------------------
\* Properties of the route stages
\* ------------------------------------------------------------------------

\* the route declares a hostname that matches
DeclaresMatch(route, hostname) ==
    \E h \in DOMAIN route.hostnames : hostnameMatches(route.hostnames[h], hostname)

ParentsAddress(route) == gatewayAddressForParentRefs(route.ns, route.parentRefs)

\* the result of a stage is the address of the first route that declares a
\* matching hostname and whose parents yield an address, or no match
StageSkipsToFirst(routes, hostname, out) ==
    /\ out.err = NoErr
    /\ IF \E k \in DOMAIN routes :
             DeclaresMatch(routes[k], hostname) /\ ParentsAddress(routes[k]) # << >>
       THEN \E k \in DOMAIN routes :
               /\ DeclaresMatch(routes[k], hostname)
               /\ out.addr = ParentsAddress(routes[k])
               /\ out.addr # << >>
               /\ \A j \in 1 .. (k - 1) :
                     \/ ~DeclaresMatch(routes[j], hostname)
                     \/ ParentsAddress(routes[j]) = << >>
       ELSE out.addr = << >>

\* C30: in each route stage (HTTP, TLS, GRPC) only a route that declares a
\* hostname matching the query is considered, so a route without hostnames
\* matches no query; a matching route whose parents yield no address is
\* passed over, the scan goes on with the next route, and a stage without
\* result hands over to the next stage.
C30_RouteStages ==
    last.kind = "routes" =>
        /\ StageSkipsToFirst(listers.httpRoutes, last.hostname, last.http)
        /\ StageSkipsToFirst(listers.tlsRoutes, last.hostname, last.tls)
        /\ StageSkipsToFirst(listers.grpcRoutes, last.hostname, last.grpc)
        /\ last.out =
              IF last.http.addr # << >> THEN last.http
              ELSE IF last.tls.addr # << >> THEN last.tls
              ELSE IF last.grpc.addr # << >> THEN last.grpc
              ELSE Res(<< >>, ErrHostnameNotFound)

\* the first HTTP route matches but its gateway has no address and the
\* second has no hostnames; the TLS route has no hostnames either; the GRPC
\* route answers
C30_Witness ==
    /\ last.kind = "routes"
    /\ last.hostname = << "h", ".", "i", "o" >>
    /\ listers.httpRoutes =
          << Route("gwns", << << "*", ".", "i", "o" >> >>,
                   << ParentRef(NilPtr, NilPtr, "gw0") >>),
             Route("gwns", << >>, << ParentRef(NilPtr, NilPtr, "gw1") >>) >>
    /\ listers.tlsRoutes =
          << Route("gwns", << >>, << ParentRef(NilPtr, NilPtr, "gw2") >>) >>
    /\ listers.grpcRoutes =
          << Route("gwns", << << "h", ".", "i", "o" >> >>,
                   << ParentRef(NilPtr, NilPtr, "gw2") >>) >>
    /\ last.out = Res(Fqdn("web"), NoErr)

\* ------------------------------------------------------------------------
\* gatewayAddressForParentRefs on every short list of parent references
\* ------------------------------------------------------------------------

\* parentRef.Kind (*Kind), parentRef.Namespace (*Namespace), parentRef.Name
ParentRefKinds ==
    { ParentRef(kind, ns, name) :
        kind \in { NilPtr, "Gateway", "Service" },
        ns \in { NilPtr, "", "other" },
        name \in { "gw1", "none" } }

\* no, one or two parent references
ParentRefInputs ==
    { << >> } \cup { << a >> : a \in ParentRefKinds }
              \cup { << a, b >> : a \in ParentRefKinds, b \in ParentRefKinds }

\* gateway.Status.Addresses: none, an empty value, an empty value before an
\* address, two addresses
GatewayAddressLists ==
    { << >>, << << >> >>, << << >>, Fqdn("mq") >>, << Fqdn("web"), Fqdn("mq") >> }

\* what the gateway lister holds: gw1 in the route's namespace, in the other
\* namespace, in both or in neither
GatewaySets ==
    { own \cup other :
        own \in { { } } \cup { { Gateway("gwns", "gw1", a) } : a \in GatewayAddressLists },
        other \in { { } } \cup { { Gateway("other", "gw1", a) } : a \in GatewayAddressLists } }

ParentWorlds ==
    { EmptyListers(TRUE) } \cup
    { [EmptyListers(FALSE) EXCEPT !.gateways = gws] : gws \in GatewaySets }

InitParents ==
    /\ api = [id \in SvcIds |-> Absent]
    /\ store = [id \in SvcIds |-> NotCached]
    /\ serviceMap = [k \in {} |-> << >>]
    /\ mutex = FreeMutex
    /\ goroutines = AllIdle
    /\ listers \in ParentWorlds
    /\ slices = << >>
    /\ \E parentRefs \in ParentRefInputs :
          last = [kind |-> "parentRefs", routeNamespace |-> "gwns",
                  parentRefs |-> parentRefs]

ResolveParents ==
    /\ last.kind = "parentRefs"
    /\ last' = [kind |-> "parents", routeNamespace |-> last.routeNamespace,
                parentRefs |-> last.parentRefs,
                out |-> gatewayAddressForParentRefs(last.routeNamespace,
                                                    last.parentRefs)]
    /\ UNCHANGED << api, store, serviceMap, listers, slices, mutex, goroutines >>

NextParents == ResolveParents

SpecParents == InitParents /\ [][NextParents]_vars

\* ------------------------------------------------------------------------
\* Properties of gatewayAddressForParentRefs
\* ------------------------------------------------------------------------

RECURSIVE FirstNonEmpty(_)
\* the first non-empty value of a list of addresses, or the empty string
FirstNonEmpty(addresses) ==
    IF addresses = << >> THEN << >>
    ELSE IF Head(addresses) # << >> THEN Head(addresses)
    ELSE FirstNonEmpty(Tail(addresses))

\* the gateways a parent reference of a route in routeNamespace names
NamedGateways(routeNamespace, ref) ==
    { g \in listers.gateways :
        /\ g.name = ref.name
        /\ g.ns = IF ref.ns \in { NilPtr, "" } THEN routeNamespace ELSE ref.ns }

RECURSIVE WalkParents(_, _)
\* the walk over the parent references, one reference at a time
WalkParents(routeNamespace, refs) ==
    IF refs = << >> THEN << >>
    ELSE IF Head(refs).kind \notin { NilPtr, "Gateway" }
         THEN WalkParents(routeNamespace, Tail(refs))
    ELSE IF NamedGateways(routeNamespace, Head(refs)) = { }
         THEN WalkParents(routeNamespace, Tail(refs))
    ELSE IF \A g \in NamedGateways(routeNamespace, Head(refs)) :
               FirstNonEmpty(g.addresses) = << >>
         THEN WalkParents(routeNamespace, Tail(refs))
    ELSE FirstNonEmpty((CHOOSE g \in NamedGateways(routeNamespace, Head(refs)) :
                           TRUE).addresses)

\* C31: gatewayAddressForParentRefs walks the parent references in order,
\* skips one whose kind is set and is not Gateway, looks the gateway up in
\* the reference's namespace if that is set and in the route's namespace
\* otherwise, skips a gateway that is missing, and returns the first
\* non-empty address of the first gateway that has one; it returns the empty
\* string if no parent yields an address.
C31_ParentWalk ==
    last.kind = "parents" =>
        last.out = WalkParents(last.routeNamespace, last.parentRefs)

\* the first parent is no gateway, the second names a gateway of another
\* namespace whose first address is empty; its second address is returned
C31_Witness ==
    /\ last.kind = "parents"
    /\ last.parentRefs = << ParentRef("Service", NilPtr, "gw1"),
                            ParentRef("Gateway", "other", "gw1") >>
    /\ listers.gateways = { Gateway("gwns", "gw1", << Fqdn("web"), Fqdn("mq") >>),
                            Gateway("other", "gw1", << << >>, Fqdn("mq") >>) }
    /\ last.out = Fqdn("mq")

\* ------------------------------------------------------------------------
\* The DNS server with listers whose List call fails
\* ------------------------------------------------------------------------

\* the errors the List calls of the four stages return
ListErrors ==
    [ingress |-> "ingress list failed", http |-> "http route list failed",
     tls |-> "tls route list failed", grpc |-> "grpc route list failed"]

\* the synced listers, all working or with one of them failing
FailingWorlds(gatewayNil) ==
    IF gatewayNil
    THEN { [EmptyListers(TRUE) EXCEPT !.ingresses = IngressesA],
           [EmptyListers(TRUE) EXCEPT !.ingresses = IngressesA,
                                      !.ingressErr = ListErrors.ingress] }
    ELSE LET synced == [EmptyListers(FALSE) EXCEPT
                           !.ingresses = IngressesA, !.httpRoutes = HTTPRoutesA,
                           !.tlsRoutes = TLSRoutesA, !.grpcRoutes = GRPCRoutesA,
                           !.gateways = GatewaysA]
         IN  { synced,
               [synced EXCEPT !.ingressErr = ListErrors.ingress],
               [synced EXCEPT !.httpErr = ListErrors.http],
               [synced EXCEPT !.tlsErr = ListErrors.tls],
               [synced EXCEPT !.grpcErr = ListErrors.grpc] }

\* A questions for a name of each stage, for the name service mq is given and
\* for a name no stage knows
StageMessages ==
    { Msg(<< Question(n, "A") >>) :
        n \in { << "m", "q", ".", "i", "o", "." >>, << "p", ".", "i", "o", "." >>,
                << "h", ".", "i", "o", "." >>, << "a", ".", "t", ".", "i", "o", "." >>,
                << "g", ".", "i", "o", "." >>, << "z", ".", "i", "o", "." >> } }

NextListErr ==
    \/ \E spec \in ManagedSpecs, writeOk \in BOOLEAN :
          ServiceApplied("mq", spec, writeOk)
    \/ \E world \in FailingWorlds(listers.gatewayNil) : ListerSync(world)
    \/ \E world \in SliceWorlds : SliceSync(world)
    \/ \E msg \in StageMessages, listOk \in BOOLEAN : HandleQuery(msg, listOk)

SpecListErr == Init /\ [][NextListErr]_vars

\* ------------------------------------------------------------------------
\* Properties of the lookup chain when a listing fails
\* ------------------------------------------------------------------------

\* the List call of stage k (ingress, HTTP, TLS, GRPC) is made and fails
StageFails(k) ==
    CASE k = 1 -> ~listers.ingressNil /\ listers.ingressErr # NoErr
      [] k = 2 -> ~listers.httpNil /\ listers.httpErr # NoErr
      [] k = 3 -> ~listers.tlsNil /\ listers.tlsErr # NoErr
      [] k = 4 -> ~listers.grpcNil /\ listers.grpcErr # NoErr

StageError(k) ==
    CASE k = 1 -> listers.ingressErr
      [] k = 2 -> listers.httpErr
      [] k = 3 -> listers.tlsErr
      [] k = 4 -> listers.grpcErr

StageResult(k, canonical) ==
    CASE k = 1 -> resolveIngressHostname(canonical)
      [] k = 2 -> resolveHTTPRouteHostname(canonical)
      [] k = 3 -> resolveTLSRouteHostname(canonical)
      [] k = 4 -> resolveGRPCRouteHostname(canonical)

\* the handler wrote one reply and it has no answers
ZeroAnswers == Len(last.replies) = 1 /\ last.replies[1].answer = << >>

\* the canonical form of the name the handler looked up
LookedUp == canonicalHostname(TrimSuffix(last.msg.question[1].name, << "." >>))

\* C32: if the List call of a stage of the lookup chain fails and no earlier
\* stage has answered, GetAddressForHostname returns that error, whatever
\* the later stages hold, and the query is answered with zero answers; a
\* name the cache holds is answered from the cache whatever the listers do.
C32_ListErrorStops ==
    (last.kind = "query" /\ last.alias.err # NotCalled /\ LookedUp # << >>) =>
        IF LookedUp \in DOMAIN serviceMap
        THEN last.alias = Res(serviceMap[LookedUp], NoErr)
        ELSE \A k \in 1 .. 4 :
                (/\ StageFails(k)
                 /\ \A j \in 1 .. (k - 1) : StageResult(j, LookedUp) = Res(<< >>, NoErr))
                => /\ last.alias = Res(<< >>, StageError(k))
                   /\ ZeroAnswers

\* the ingress listing fails for a name an HTTP route declares, whose gateway
\* leads to a service with ready endpoints
C32_Witness ==
    /\ last.kind = "query"
    /\ last.msg = Msg(<< Question(<< "h", ".", "i", "o", "." >>, "A") >>)
    /\ StageFails(1)
    /\ StageResult(2, << "h", ".", "i", "o" >>) = Res(Fqdn("mq"), NoErr)
    /\ GetEndpoints(SvcName("mq"), SvcNamespace("mq"), TRUE).err = NoErr
    /\ last.alias = Res(<< >>, ListErrors.ingress)
    /\ ZeroAnswers

\* ------------------------------------------------------------------------
\* The DNS server asked for names in either letter case
\* ------------------------------------------------------------------------

\* A questions for the name of service mq under the domain and for alias
\* names, each in lower case and with upper-case letters
CaseMessages ==
    { Msg(<< Question(n, "A") >>) :
        n \in { << "m", "q", ".", "a", "u", ".", "m", "i", "n", "i", "l", "b", "." >>,
                << "M", "Q", ".", "a", "u", ".", "m", "i", "n", "i", "l", "b", "." >>,
                << "m", "q", ".", "a", "u", ".", "M", "I", "N", "I", "L", "B", "." >>,
                << "m", "q", ".", "i", "o", "." >>, << "M", "Q", ".", "I", "O", "." >>,
                << "p", ".", "i", "o", "." >>, << "P", ".", "i", "o", "." >> } }

NextCase ==
    \/ \E spec \in ManagedSpecs, writeOk \in BOOLEAN :
          ServiceApplied("mq", spec, writeOk)
    \/ \E world \in ListerWorlds(listers.gatewayNil) : ListerSync(world)
    \/ \E world \in SliceWorlds : SliceSync(world)
    \/ \E msg \in CaseMessages, listOk \in BOOLEAN : HandleQuery(msg, listOk)

SpecCase == Init /\ [][NextCase]_vars

\* ------------------------------------------------------------------------
\* Properties of the letter case of query names
\* ------------------------------------------------------------------------

\* the addresses of the answers of the reply a run of the handler wrote
AnswerAddresses(log) ==
    IF Len(log.replies) = 0 THEN << >>
    ELSE [i \in DOMAIN log.replies[1].answer |-> log.replies[1].answer[i].a]

SameMultiset(s, t) ==
    /\ Len(s) = Len(t)
    /\ \A i \in DOMAIN s : Occurrences(s, s[i]) = Occurrences(t, s[i])

\* the question of the last query with its name in lower case
LowerCased ==
    Msg(<< Question(ToLower(last.msg.question[1].name), "A") >>)

\* C33: two A queries whose names differ only in letter case receive the
\* same multiset of answer addresses against the same cluster state: the
\* answers of a query are those its lower-cased name receives in the same
\* state, when the endpoint listing succeeds for both.
C33_CaseInsensitive ==
    (/\ last.kind = "query"
     /\ last.msg \in CaseMessages
     /\ last.target.err # ErrList) =>
        SameMultiset(AnswerAddresses(last),
                     AnswerAddresses(handleDNSRequest(LowerCased, TRUE, NoShuffle)))

\* ------------------------------------------------------------------------
\* The DNS server asked for names under and outside the domain
\* ------------------------------------------------------------------------

\* an ingress whose status names a host that is itself an alias
ChainedIngresses ==
    << Ingress(<< << "c", ".", "i", "o" >> >>,
               << LbEntry(<< >>, << "m", "q", ".", "i", "o" >>) >>) >>

SuffixWorlds(gatewayNil) ==
    ListerWorlds(gatewayNil)
    \cup { [EmptyListers(gatewayNil) EXCEPT !.ingresses = ChainedIngresses] }

\* questions for names under the domain (one of them a name a service can
\* be given as alias), for the domain in upper case, for a name with two
\* final dots, and for aliases; one question that is no address question
SuffixMessages ==
    { Msg(<< Question(n, "A") >>) :
        n \in { << "m", "q", ".", "a", "u", ".", "m", "i", "n", "i", "l", "b", "." >>,
                << "m", "q", ".", "a", "u", ".", "M", "I", "N", "I", "L", "B", "." >>,
                << "m", "q", ".", "a", "u", ".", "m", "i", "n", "i", "l", "b", ".", "." >>,
                << "x", ".", "y", ".", "m", "i", "n", "i", "l", "b", "." >>,
                << "m", "q", ".", "i", "o", "." >>, << "c", ".", "i", "o", "." >>,
                << "p", ".", "i", "o", "." >> } }
    \cup { Msg(<< Question(<< "m", "q", ".", "i", "o", "." >>, "TXT") >>) }

NextSuffix ==
    \/ \E spec \in ManagedSpecs, writeOk \in BOOLEAN :
          ServiceApplied("mq", spec, writeOk)
    \/ \E world \in SuffixWorlds(listers.gatewayNil) : ListerSync(world)
    \/ \E world \in SliceWorlds : SliceSync(world)
    \/ \E msg \in SuffixMessages, listOk \in BOOLEAN : HandleQuery(msg, listOk)

SpecSuffix == Init /\ [][NextSuffix]_vars

\* ------------------------------------------------------------------------
\* Properties of the choice between the direct and the alias path
\* ------------------------------------------------------------------------

\* the query name without one final dot
TrimmedName == TrimSuffix(last.msg.question[1].name, << "." >>)

\* the name ends with .<domain>, letter for letter
UnderDomain(name) ==
    /\ Len(name) >= Len(Domain) + 1
    /\ \A i \in 1 .. Len(Domain) :
          name[Len(name) - Len(Domain) + i] = Domain[i]
    /\ name[Len(name) - Len(Domain)] = "."

\* GetAddressForHostname was called during the last query
Consulted == last.alias.err # NotCalled

\* the handler took the name as service.namespace(.<domain>): it asked for
\* the endpoints of the part before the first dot in the namespace after
\* it, or failed on the format when there is no dot
TakenDirectly(name) ==
    LET rest == IF UnderDomain(name)
                THEN SubSeq(name, 1, Len(name) - Len(Domain) - 1)
                ELSE name
    IN  IF \E i \in DOMAIN rest : rest[i] = "."
        THEN /\ last.target.err # NotCalled
             /\ last.target.serviceName \o << "." >> \o last.target.namespace = rest
             /\ \A i \in DOMAIN last.target.serviceName :
                   last.target.serviceName[i] # "."
        ELSE last.target = NoTarget

\* the path the handler took for the name of the last query
SuffixDecides ==
    /\ Consulted <=> ~UnderDomain(TrimmedName)
    /\ UnderDomain(TrimmedName) => TakenDirectly(TrimmedName)
    /\ (Consulted /\ last.alias.err = NoErr) => TakenDirectly(last.alias.addr)
    /\ (Consulted /\ last.alias.err # NoErr) => last.target = NoTarget

\* C34 as stated, for every query: the cache and the route lookup chain are
\* consulted if and only if the query name without one final dot does not
\* end with .<domain>.
C34_SuffixDecidesAnyQuery ==
    (last.kind = "query" /\ Len(last.msg.question) > 0) => SuffixDecides

\* C34: for an A query the cache and the route lookup chain are consulted
\* if and only if the query name, after removing one final dot, does not
\* end with .<domain> (compared case-sensitively); a name that ends with
\* .<domain> is taken directly as service.namespace, even when it is a key
\* of the cache, and the address the alias resolution returns is taken the
\* same way without being resolved again.
C34_SuffixDecides ==
    (/\ last.kind = "query"
     /\ Len(last.msg.question) > 0
     /\ last.msg.question[1].qtype = "A") => SuffixDecides

\* the cache holds x.y.minilb and the query for x.y.minilb. asks for the
\* endpoints of service x in namespace y without a lookup
C34_Witness ==
    /\ last.kind = "query"
    /\ last.msg = Msg(<< Question(<< "x", ".", "y", ".", "m", "i", "n", "i", "l", "b", "." >>, "A") >>)
    /\ << "x", ".", "y", ".", "m", "i", "n", "i", "l", "b" >> \in DOMAIN serviceMap
    /\ ~Consulted
    /\ last.target.serviceName = << "x" >>
    /\ last.target.namespace = << "y" >>

\* ------------------------------------------------------------------------
\* Properties of two services with the same alias
\* ------------------------------------------------------------------------

\* the canonical keys the annotations of the services can have
AliasKeys ==
    { canonicalHostname(spec.annot.val) :
        spec \in { s \in UNION { SvcSpecs(id) : id \in SvcIds } : s.annot.exists } }
    \ { << >> }

\* service id is managed and carries an alias whose canonical form is key
CarriesAlias(id, key) ==
    /\ api[id].present
    /\ api[id].type = "LoadBalancer"
    /\ api[id].class = LBClass
    /\ api[id].annot.exists
    /\ canonicalHostname(api[id].annot.val) = key

\* C35: the binding of a key is the name.namespace.domain of the service
\* whose add/update event was processed most recently among the managed
\* services carrying an alias with that canonical key: such an event sets
\* the binding to its own service, whichever service held it before, and
\* every other step leaves the binding as it is. So with two services on one
\* key each redelivery moves the binding to the service redelivered last.
C35_LastEventWins ==
    [][ \A key \in AliasKeys \cup DOMAIN serviceMap :
          IF AliasEventFor(key)
          THEN /\ key \in DOMAIN serviceMap'
               /\ serviceMap'[key] =
                     last'.obj.svc.name \o << "." >> \o last'.obj.svc.namespace
                        \o << "." >> \o Domain
          ELSE IF key \in DOMAIN serviceMap
               THEN key \in DOMAIN serviceMap' /\ serviceMap'[key] = serviceMap[key]
               ELSE key \notin DOMAIN serviceMap' ]_vars

\* mq and web both carry an alias with the key mq.io (written MQ.io. and
\* mq.io); the last event was one of web and the key is bound to web
C35_Witness ==
    /\ CarriesAlias("mq", << "m", "q", ".", "i", "o" >>)
    /\ CarriesAlias("web", << "m", "q", ".", "i", "o" >>)
    /\ api["mq"].annot.val # api["web"].annot.val
    /\ last.kind = "event"
    /\ last.obj.svc.name = SvcName("web")
    /\ serviceMap[<< "m", "q", ".", "i", "o" >>] = Fqdn("web")

\* ------------------------------------------------------------------------
\* Properties of a failed status write
\* ------------------------------------------------------------------------

\* C36: if the UpdateStatus call fails, the service object the informer
\* handed to the handler (its cached object) is left with the status it had
\* before the handler ran.
C36_FailedWriteLeavesObject ==
    (last.kind = "event" /\ last.err = ErrUpdate) =>
        /\ last.svc.status = last.obj.svc.status
        /\ store[SvcIdOf(last.obj.svc)].svc.status = last.obj.svc.status

\* ------------------------------------------------------------------------
\* The shuffle with every sequence of random numbers
\* ------------------------------------------------------------------------

\* every list shuffleDNSAnswers can return for a list, over the numbers
\* rand.Intn can return
ShuffleResults(answers) ==
    { shuffleDNSAnswers(answers, js) : js \in RandomDraws(Len(answers)) }

\* shuffleDNSAnswers(answers) is run with each sequence of random numbers
ShuffleAll ==
    /\ last.kind = "answers"
    /\ last' = [kind |-> "results", answers |-> last.answers,
                outs |-> ShuffleResults(last.answers)]
    /\ UNCHANGED << api, store, serviceMap, listers, slices, mutex, goroutines >>

NextPermute == ShuffleAll

SpecPermute == InitShuffle /\ [][NextPermute]_vars

\* ------------------------------------------------------------------------
\* Properties of the shuffle: what it can return
\* ------------------------------------------------------------------------

\* the orders of the positions 1 .. n
Orders(n) ==
    { p \in [1 .. n -> 1 .. n] : \A i, j \in 1 .. n : p[i] = p[j] => i = j }

\* every permutation of a list
Rearrangements(seq) ==
    { [i \in DOMAIN seq |-> seq[p[i]]] : p \in Orders(Len(seq)) }

\* C37: for an answer list of n >= 1 records every permutation of the list
\* is a possible result of shuffleDNSAnswers, each position being exchanged
\* with a position not after it; in particular every record can come first
\* in the reply.
C37_EveryPermutation ==
    (last.kind = "results" /\ Len(last.answers) >= 1) =>
        /\ Rearrangements(last.answers) \subseteq last.outs
        /\ \A i \in DOMAIN last.answers :
              \E out \in last.outs : out[1] = last.answers[i]

\* three different records: the reverse order is among the results
C37_Witness ==
    /\ last.kind = "results"
    /\ Len(last.answers) = 3
    /\ Cardinality({ last.answers[i] : i \in 1 .. 3 }) = 3
    /\ << last.answers[3], last.answers[2], last.answers[1] >> \in last.outs
    /\ Cardinality(last.outs) = 6

\* ------------------------------------------------------------------------
\* package main: the process and the termination signals
\* ------------------------------------------------------------------------

Signals == { "SIGINT", "SIGTERM" }

\* the signals relayed to signalCh: main makes the channel but never hands
\* it to signal.Notify
Notified == { }

\* What main did on a signal: whether it received it from signalCh, whether
\* it called cancel, whether it slept the grace period, and how the process
\* ended. A signal that is not relayed has the disposition of the Go
\* runtime: the process ends at once, before any statement of main runs.
SignalLog(sig) ==
    IF sig \in Notified
    THEN [kind |-> "signal", sig |-> sig, received |-> TRUE, cancelled |-> TRUE,
          grace |-> TRUE, exit |-> "main returned"]
    ELSE [kind |-> "signal", sig |-> sig, received |-> FALSE, cancelled |-> FALSE,
          grace |-> FALSE, exit |-> "killed by the signal"]

\* the process has ended
Exited == last.kind = "signal"

\* the process receives a termination signal while main waits in its select
Signal(sig) ==
    /\ ~Exited
    /\ ~Crashed
    /\ last' = SignalLog(sig)
    /\ UNCHANGED << api, store, serviceMap, listers, slices, mutex, goroutines >>

\* The controller until the process is sent a signal.
NextSignal ==
    \/ ~Exited /\ NextCtl
    \/ \E sig \in Signals : Signal(sig)

SpecSignal == Init /\ [][NextSignal]_vars

\* ------------------------------------------------------------------------
\* Properties of the shutdown
\* ------------------------------------------------------------------------

\* C38: when the process receives a termination signal (SIGINT or SIGTERM),
\* main observes it on its signal channel, cancels the context so that the
\* informers stop, and exits after the grace period.
C38_SignalHandled ==
    last.kind = "signal" =>
        /\ last.received
        /\ last.cancelled
        /\ last.grace
        /\ last.exit = "main returned"

====
